---------------------------- MODULE Spec2Model ----------------------------
(***************************************************************************)
(* A model of the relationship-scoring core of the notes application:      *)
(*   - chunkText            (web/src/lib/chunking.ts)                      *)
(*   - the link-scoring lib (web/src/lib/linkScoring.ts, lib/tags.ts,      *)
(*                           lib/entities.ts)                              *)
(*   - the cross-chunk matcher of GET /api/notes/[id]/links                *)
(*   - PUT /api/notes/[id] and its background processNoteHeavyWork         *)
(*   - the autosave of components/BlockNoteEditor.tsx                      *)
(*                                                                         *)
(* Strings are sequences of one-character strings; JavaScript's 0-based    *)
(* index i is position i+1 of the sequence.  Numbers that the code keeps   *)
(* as floats are exact rationals <<n, d>> with d > 0.                      *)
(***************************************************************************)
EXTENDS Integers, Sequences, FiniteSets, TLC

VARIABLES
    \* ---- chunkText ----
    input,      \* the raw argument `input`
    opts,       \* the argument `opts`
    text,       \* the whitespace-normalised text (line 32)
    start,      \* the cursor `start`
    ord,        \* the counter `ord`
    chunks,     \* the array `chunks`
    trail,      \* history: the value of `start` at the head of every iteration run
    cpc,        \* position in chunkText: "idle", "entry", "loop", "done"
    \* ---- link scoring ----
    finput,     \* the FeatureInputs handed to computeFeatureScores
    feats,      \* the FeatureScores
    score,      \* the result of finalLinkScore
    decision,   \* the result of classifyLink
    fpc,        \* what is still to run: "idle", "features", "score", "classify", "done"
    \* ---- GET /api/notes/[id]/links ----
    req,        \* the request parameters `min` and `topk` (lines 70-71)
    target,     \* the target note: targetVec, targetChunks, targetTags, entitiesTarget
    candidates, \* the rows of the candidates query (lines 104-108)
    nextRow,    \* the position of the next row the map callback is applied to
    locals,     \* the callback's locals (cos, matches, ...) at line 185 of its last run
    scored,     \* the array `scored`
    suggestions,\* the `suggestions` of the response
    mpc,        \* position in GET: "idle", "map", "sort", "done"
    \* ---- calls of the metric library ----
    call,       \* the function called and its arguments
    ret,        \* what the call returned
    again,      \* what normalizeTags returned when applied to its own result
    upc,        \* position of the call: "idle", "call", "returned", "done"
    \* ---- PUT /api/notes/[id] and processNoteHeavyWork ----
    note,       \* the row of the note: contentJson, title, embedding, tags, entities
    noteChunks, \* the note_chunks rows of the note
    puts,       \* the PUT handlers: position and the content each one sent
    jobs,       \* the runs of processNoteHeavyWork, in the order they were scheduled
    lastDelete, \* history: the run that last executed the delete of line 195
    \* ---- the editor's autosave ----
    saveState,       \* the state `saveState`
    debounceRef,     \* whether the 800 ms debounce timer is armed
    initializingRef, \* the ref `initializingRef`
    putsInFlight,    \* the number of saveNow calls awaiting their fetch
    idleTimers,      \* the number of pending reset-to-idle timers (line 113)
    edits            \* history: the number of editor changes so far

chunkVars == <<input, opts, text, start, ord, chunks, trail, cpc>>

scoreVars == <<finput, feats, score, decision, fpc>>

matchVars == <<req, target, candidates, nextRow, locals, scored, suggestions, mpc>>

libVars == <<call, ret, again, upc>>

noteVars == <<note, noteChunks, puts, jobs, lastDelete>>

editorVars == <<saveState, debounceRef, initializingRef, putsInFlight, idleTimers, edits>>

vars == <<input, opts, text, start, ord, chunks, trail, cpc,
          finput, feats, score, decision, fpc,
          req, target, candidates, nextRow, locals, scored, suggestions, mpc,
          call, ret, again, upc,
          note, noteChunks, puts, jobs, lastDelete,
          saveState, debounceRef, initializingRef, putsInFlight, idleTimers, edits>>

\* An optional value: <<>> is undefined, <<v>> is the value v.
Undef == <<>>

Some(v) == <<v>>

(***************************************************************************)
(* Generic helpers.                                                        *)
(***************************************************************************)
Max2(a, b) == IF a >= b THEN a ELSE b

Min2(a, b) == IF a <= b THEN a ELSE b

SetMax(S) == CHOOSE x \in S : \A y \in S : y <= x

Repeat(c, n) == [i \in 1..n |-> c]

RECURSIVE Flatten(_)
Flatten(ss) == IF ss = <<>> THEN <<>> ELSE Head(ss) \o Flatten(Tail(ss))

(***************************************************************************)
(* chunking.ts                                                             *)
(***************************************************************************)
CHARS_PER_TOKEN == 4

DefaultTargetTokens == 350

DefaultOverlapTokens == 80

DefaultMaxCharsPerChunk == 4000

MinTargetTokens == 50

MinMaxCharsPerChunk == 500

IsSpaceChar(c) == c \in {" ", "\n", "\t"}

\* String.prototype.trim on a sequence of characters.
RECURSIVE TrimLeft(_)
TrimLeft(s) ==
    IF s # <<>> /\ IsSpaceChar(Head(s)) THEN TrimLeft(Tail(s)) ELSE s

RECURSIVE TrimRight(_)
TrimRight(s) ==
    IF s # <<>> /\ IsSpaceChar(s[Len(s)])
    THEN TrimRight(SubSeq(s, 1, Len(s) - 1))
    ELSE s

Trim(s) == TrimRight(TrimLeft(s))

\* replace(/\s+/g, ' '): every maximal run of whitespace becomes one space
\* (the first whitespace character of a run is kept, as a space; the others
\* are dropped).
CollapseWs(s) ==
    LET marked == [i \in 1..Len(s) |->
                     [c |-> IF IsSpaceChar(s[i]) THEN " " ELSE s[i],
                      drop |-> IsSpaceChar(s[i]) /\ i > 1 /\ IsSpaceChar(s[i - 1])]]
        kept == SelectSeq(marked, LAMBDA m : ~m.drop)
    IN  [i \in 1..Len(kept) |-> kept[i].c]

\* line 32: (input || '').replace(/\s+/g, ' ').trim()
NormalizeText(s) == Trim(CollapseWs(s))

\* opts.x ?? dflt
OrDefault(v, dflt) == IF v = Undef THEN dflt ELSE v[1]

\* lines 25-27: the clamped options (option values are integers here, so
\* Math.floor is the identity on them).
TargetTokens(o) == Max2(MinTargetTokens, OrDefault(o.targetTokens, DefaultTargetTokens))

OverlapTokens(o) == Max2(0, OrDefault(o.overlapTokens, DefaultOverlapTokens))

MaxCharsPerChunk(o) ==
    Max2(MinMaxCharsPerChunk, OrDefault(o.maxCharsPerChunk, DefaultMaxCharsPerChunk))

\* line 29
TargetChars(o) == Min2(TargetTokens(o) * CHARS_PER_TOKEN, MaxCharsPerChunk(o))

\* Math.floor(targetChars * 0.8) and Math.floor(targetChars * 0.6): for every
\* integer targetChars in 200..4000 the float product floors to the integer
\* quotient below.
FloorTimes08(n) == (n * 8) \div 10

FloorTimes06(n) == (n * 6) \div 10

\* line 30
OverlapChars(o) == Min2(OverlapTokens(o) * CHARS_PER_TOKEN, FloorTimes08(TargetChars(o)))

\* text.lastIndexOf(pat, from) with 0-based indices; -1 when there is none.
\* A match may begin at index `from` itself.
LastIndexOf(t, pat, from) ==
    LET n == Len(pat)
        hits == { i \in 0..Min2(from, Len(t) - n) :
                     \A k \in 1..n : t[i + k] = pat[k] }
    IN  IF hits = {} THEN -1 ELSE SetMax(hits)

\* lines 40-55 without the 0.6 floor: any sentence or word boundary after
\* the cursor ends the chunk.
ChunkEndNoFloor(t, s, targetChars) ==
    LET end0 == Min2(Len(t), s + targetChars)
    IN  IF end0 < Len(t)
        THEN LET period   == LastIndexOf(t, <<".", " ">>, end0)
                 newline  == LastIndexOf(t, <<"\n">>, end0)
                 boundary == Max2(period, newline)
                 space    == LastIndexOf(t, <<" ">>, end0)
             IN  IF boundary > s THEN boundary + 1
                 ELSE IF space > s THEN space
                 ELSE end0
        ELSE end0

\* lines 40-55: the end of the chunk that begins at s.
ChunkEnd(t, s, targetChars) ==
    LET end0 == Min2(Len(t), s + targetChars)
        floor06 == s + FloorTimes06(targetChars)
    IN  IF end0 < Len(t)
        THEN LET period   == LastIndexOf(t, <<".", " ">>, end0)
                 newline  == LastIndexOf(t, <<"\n">>, end0)
                 boundary == Max2(period, newline)
                 space    == LastIndexOf(t, <<" ">>, end0)
             IN  IF boundary > floor06 THEN boundary + 1
                 ELSE IF space > floor06 THEN space
                 ELSE end0
        ELSE end0

\* line 57: text.slice(start, end).trim()
ChunkSliceUntrimmed(t, s, e) == SubSeq(t, s + 1, e)

ChunkSlice(t, s, e) == Trim(SubSeq(t, s + 1, e))

\* lines 65-66: the next value of the cursor.
NextStartNoOverlapStep(e, overlapChars) == e + 1

NextStart(e, overlapChars) == Max2(1, e - Max2(0, overlapChars))


(***************************************************************************)
(* Inputs of chunkText: raw texts built from words of the letter "a" and   *)
(* separators, and option records.                                         *)
(***************************************************************************)
MaxWords == 3

MaxIterations == 12

WordLens == {0, 60, 130}

Separators == { <<" ", "\n">>, <<".", " ">> }

Pieces == { Repeat("a", w) \o sep : w \in WordLens, sep \in Separators }

RECURSIVE PieceLists(_)
PieceLists(n) ==
    IF n = 0 THEN { <<>> }
    ELSE LET shorter == PieceLists(n - 1)
         IN  shorter \cup { Append(l, p) : l \in { x \in shorter : Len(x) = n - 1 },
                                           p \in Pieces }

ChunkInputs == { Flatten(l) : l \in PieceLists(MaxWords) }

ChunkOptions ==
    { [targetTokens |-> Some(50),    overlapTokens |-> Some(0),     maxCharsPerChunk |-> Undef],
      [targetTokens |-> Some(50),    overlapTokens |-> Some(25),    maxCharsPerChunk |-> Undef],
      [targetTokens |-> Some(10),    overlapTokens |-> Some(1000),  maxCharsPerChunk |-> Some(100)],
      [targetTokens |-> Undef, overlapTokens |-> Undef, maxCharsPerChunk |-> Undef] }

\* line 192 of the notes route: chunkText(plainBody, { targetTokens: 350,
\* overlapTokens: 80 })
AppOptions ==
    [targetTokens |-> Some(350), overlapTokens |-> Some(80), maxCharsPerChunk |-> Undef]

LongWordLens == {100, 900}

LongPieces == { Repeat("a", w) \o sep : w \in LongWordLens, sep \in Separators }

RECURSIVE LongPieceLists(_)
LongPieceLists(n) ==
    IF n = 0 THEN { <<>> }
    ELSE LET shorter == LongPieceLists(n - 1)
         IN  shorter \cup { Append(l, p) : l \in { x \in shorter : Len(x) = n - 1 },
                                           p \in LongPieces }

\* Texts long enough for several chunks under the application's options.
LongInputs == { Flatten(l) : l \in LongPieceLists(MaxWords) }

\* Texts whose separators fall on and next to the 0.6 floor and the raw cut
\* of the first chunk, for targetChars = 200 and for targetChars = 500.
BoundaryTexts(floor06, targetChars) ==
    { Repeat("a", floor06 + d) \o sep1 \o Repeat("a", w) \o sep2 \o Repeat("a", floor06) :
         d \in {-1, 0, 1},
         w \in {2, targetChars - floor06 - 3, targetChars - floor06 - 2},
         sep1 \in { <<" ">>, <<".", " ">> },
         sep2 \in { <<" ">>, <<".", " ">> } }

BoundaryCases ==
    { [input |-> t, opts |-> o] :
         t \in BoundaryTexts(120, 200),
         o \in { [targetTokens |-> Some(50), overlapTokens |-> Some(0),
                  maxCharsPerChunk |-> Undef] } }
    \cup
    { [input |-> t, opts |-> o] :
         t \in BoundaryTexts(300, 500),
         o \in { [targetTokens |-> Undef, overlapTokens |-> Some(0),
                  maxCharsPerChunk |-> Some(500)] } }

NoteIdle ==
    /\ note = Undef
    /\ noteChunks = {}
    /\ puts = <<>>
    /\ jobs = <<>>
    /\ lastDelete = 0

EditorIdle ==
    /\ saveState = "idle"
    /\ debounceRef = FALSE
    /\ initializingRef = FALSE
    /\ putsInFlight = 0
    /\ idleTimers = 0
    /\ edits = 0

ScoreIdle ==
    /\ finput = Undef
    /\ feats = Undef
    /\ score = Undef
    /\ decision = ""
    /\ fpc = "idle"

LibIdle ==
    /\ call = Undef
    /\ ret = Undef
    /\ again = Undef
    /\ upc = "idle"

MatchIdle ==
    /\ req = Undef
    /\ target = Undef
    /\ candidates = <<>>
    /\ nextRow = 0
    /\ locals = Undef
    /\ scored = <<>>
    /\ suggestions = <<>>
    /\ mpc = "idle"

ChunkInit ==
    /\ ScoreIdle
    /\ MatchIdle
    /\ LibIdle
    /\ NoteIdle
    /\ EditorIdle
    /\ \/ /\ input \in ChunkInputs
          /\ opts \in ChunkOptions
       \/ /\ input \in LongInputs
          /\ opts = AppOptions
       \/ \E c \in BoundaryCases :
             /\ input = c.input
             /\ opts = c.opts
    /\ text = <<>>
    /\ start = 0
    /\ ord = 0
    /\ chunks = <<>>
    /\ trail = <<>>
    /\ cpc = "entry"

\* lines 25-37: normalise the text; an empty text returns [] at once.
ChunkEnter ==
    /\ cpc = "entry"
    /\ text' = NormalizeText(input)
    /\ start' = 0
    /\ ord' = 0
    /\ chunks' = <<>>
    /\ cpc' = IF text' = <<>> THEN "done" ELSE "loop"
    /\ UNCHANGED <<input, opts, trail>>
    /\ UNCHANGED scoreVars
    /\ UNCHANGED matchVars
    /\ UNCHANGED libVars
    /\ UNCHANGED noteVars
    /\ UNCHANGED editorVars

\* lines 39-67: one iteration of the while loop.  The loop condition
\* start < text.length holds at every loop head (the cursor is at most an
\* `end` that was below text.length), so the loop is only ever left by the
\* break of line 63.
ChunkIterate ==
    /\ cpc = "loop"
    /\ start < Len(text)
    /\ Len(trail) < MaxIterations
    /\ LET end   == ChunkEnd(text, start, TargetChars(opts))
           slice == ChunkSlice(text, start, end)
       IN  /\ chunks' = IF slice # <<>>
                        THEN Append(chunks, [ord |-> ord, text |-> slice,
                                             startIndex |-> start, endIndex |-> end])
                        ELSE chunks
           /\ ord' = IF slice # <<>> THEN ord + 1 ELSE ord
           /\ trail' = Append(trail, start)
           /\ IF end >= Len(text)
              THEN cpc' = "done" /\ start' = start
              ELSE cpc' = "loop" /\ start' = NextStart(end, OverlapChars(opts))
    /\ UNCHANGED <<input, opts, text>>
    /\ UNCHANGED scoreVars
    /\ UNCHANGED matchVars
    /\ UNCHANGED libVars
    /\ UNCHANGED noteVars
    /\ UNCHANGED editorVars

ChunkNext == ChunkEnter \/ ChunkIterate

SpecChunk == ChunkInit /\ [][ChunkNext]_vars

(***************************************************************************)
(* Claims about chunkText (checked under SpecChunk).                       *)
(***************************************************************************)

\* C1 (as claimed): chunkText terminates for every text and every option
\* triple.  The loop is deterministic and its only loop-carried state that
\* decides an iteration is `start`, so it terminates exactly when no value of
\* `start` comes back at a loop head: a cursor value seen before repeats the
\* same iteration for ever.
C1_ChunkLoopNeverRevisitsState ==
    cpc = "loop" => \A i \in 1..Len(trail) : trail[i] # start

\* C2 (as claimed): the cursor `start` strictly increases from every loop
\* iteration to the next, and so the emitted chunks have strictly increasing
\* ord and strictly increasing startIndex.
C2_CursorStrictlyIncreases ==
    /\ \A i \in 1..(Len(trail) - 1) : trail[i] < trail[i + 1]
    /\ cpc = "loop" /\ trail # <<>> => trail[Len(trail)] < start
    /\ \A i \in 1..(Len(chunks) - 1) :
          /\ chunks[i].ord < chunks[i + 1].ord
          /\ chunks[i].startIndex < chunks[i + 1].startIndex

\* C3: when chunkText returns, the spans [startIndex, endIndex) cover the
\* normalised text without a gap: for a non-empty text the first chunk
\* starts at 0, the last ends at the normalised length and every later chunk
\* starts at or before the end of the one before it; for an empty or
\* whitespace-only input the result is the empty list.
C3_SpansCoverText ==
    cpc = "done" =>
       IF text = <<>>
       THEN chunks = <<>>
       ELSE /\ chunks # <<>>
            /\ chunks[1].startIndex = 0
            /\ chunks[Len(chunks)].endIndex = Len(text)
            /\ \A i \in 1..(Len(chunks) - 1) :
                  chunks[i + 1].startIndex <= chunks[i].endIndex

\* C3 witness: a returned list of three or more chunks with an overlap.
C3_Witness ==
    /\ cpc = "done"
    /\ Len(chunks) >= 3
    /\ \E i \in 1..(Len(chunks) - 1) : chunks[i + 1].startIndex < chunks[i].endIndex

\* C4 (as claimed): every emitted chunk has startIndex < endIndex and its text
\* is exactly the substring [startIndex, endIndex) of the normalised text.
C4_TextIsExactSubstring ==
    \A i \in 1..Len(chunks) :
       /\ chunks[i].startIndex < chunks[i].endIndex
       /\ chunks[i].text = SubSeq(text, chunks[i].startIndex + 1, chunks[i].endIndex)
       /\ Len(chunks[i].text) = chunks[i].endIndex - chunks[i].startIndex

\* C4 (amended): every emitted chunk has startIndex < endIndex and its text is
\* the substring [startIndex, endIndex) of the normalised text with leading
\* and trailing whitespace trimmed: non-empty, no longer than
\* endIndex - startIndex, and neither beginning nor ending with whitespace.
C4_TextIsTrimmedSubstring ==
    \A i \in 1..Len(chunks) :
       LET c   == chunks[i]
           sub == SubSeq(text, c.startIndex + 1, c.endIndex)
       IN  /\ c.startIndex < c.endIndex
           /\ c.text # <<>>
           /\ Len(c.text) <= c.endIndex - c.startIndex
           /\ ~IsSpaceChar(c.text[1])
           /\ ~IsSpaceChar(c.text[Len(c.text)])
           /\ \E lead \in 0..(Len(sub) - Len(c.text)) :
                 /\ c.text = SubSeq(sub, lead + 1, lead + Len(c.text))
                 /\ \A k \in 1..lead : IsSpaceChar(sub[k])
                 /\ \A k \in (lead + Len(c.text) + 1)..Len(sub) : IsSpaceChar(sub[k])

\* C4 witness: an emitted chunk whose text is shorter than its span.
C4_Witness ==
    \E i \in 1..Len(chunks) :
       Len(chunks[i].text) < chunks[i].endIndex - chunks[i].startIndex

(***************************************************************************)
(* Numbers.  A JavaScript number is a pair <<n, d>>: the rational n/d in    *)
(* lowest terms when d > 0, and +Infinity, -Infinity, NaN as <<1, 0>>,      *)
(* <<-1, 0>>, <<0, 0>>.  The arithmetic below is exact; it is applied to    *)
(* finite operands only.                                                   *)
(***************************************************************************)
Abs(n) == IF n < 0 THEN -n ELSE n

RECURSIVE Gcd(_, _)
Gcd(a, b) == IF b = 0 THEN a ELSE Gcd(b, a % b)

Q(n, d) ==
    IF d = 0 THEN <<(IF n > 0 THEN 1 ELSE IF n < 0 THEN -1 ELSE 0), 0>>
    ELSE LET g == Gcd(Abs(n), Abs(d))
             sgn == IF d < 0 THEN -1 ELSE 1
         IN  <<(sgn * n) \div g, (sgn * d) \div g>>

Zero == <<0, 1>>

One == <<1, 1>>

NaN == <<0, 0>>

\* Number.isFinite
IsFinite(x) == x[2] # 0

QAdd(x, y) == Q(x[1] * y[2] + y[1] * x[2], x[2] * y[2])

QMul(x, y) == Q(x[1] * y[1], x[2] * y[2])

\* x / y; a zero divisor gives an infinity or NaN, as in IEEE 754.
QDiv(x, y) == Q(x[1] * y[2], x[2] * y[1])

QLt(x, y) == x[1] * y[2] < y[1] * x[2]

QLe(x, y) == x[1] * y[2] <= y[1] * x[2]

\* Math.min / Math.max of two finite numbers
QMin(x, y) == IF QLe(x, y) THEN x ELSE y

QMax(x, y) == IF QLe(x, y) THEN y ELSE x

RECURSIVE QSum(_)
QSum(xs) == IF xs = <<>> THEN Zero ELSE QAdd(Head(xs), QSum(Tail(xs)))

RECURSIVE QMaxOf(_)
QMaxOf(xs) == IF Len(xs) = 1 THEN xs[1] ELSE QMax(xs[1], QMaxOf(Tail(xs)))

InUnit(x) == IsFinite(x) /\ QLe(Zero, x) /\ QLe(x, One)

\* The elements of a set, as some sequence without repetition.
RECURSIVE SeqOfSet(_)
SeqOfSet(S) ==
    IF S = {} THEN <<>>
    ELSE LET x == CHOOSE y \in S : TRUE IN <<x>> \o SeqOfSet(S \ {x})

Range(f) == { f[i] : i \in DOMAIN f }

(***************************************************************************)
(* Strings of labels.  A character is a one-character string, except two   *)
(* tokens that stand for non-ASCII code points: "<e-acute>" is U+00E9 and   *)
(* "<acute>" is the combining mark U+0301 it decomposes to under NFKD.     *)
(***************************************************************************)
UpperLetters ==
    <<"A","B","C","D","E","F","G","H","I","J","K","L","M",
      "N","O","P","Q","R","S","T","U","V","W","X","Y","Z">>

LowerLetters ==
    <<"a","b","c","d","e","f","g","h","i","j","k","l","m",
      "n","o","p","q","r","s","t","u","v","w","x","y","z">>

Digits == {"0","1","2","3","4","5","6","7","8","9"}

\* the character class [a-z0-9]
LowerAlnum == Range(LowerLetters) \cup Digits

ToLowerChar(c) ==
    IF \E i \in DOMAIN UpperLetters : UpperLetters[i] = c
    THEN LowerLetters[CHOOSE i \in DOMAIN UpperLetters : UpperLetters[i] = c]
    ELSE c

\* String.prototype.toLowerCase
ToLowerCase(s) == [i \in 1..Len(s) |-> ToLowerChar(s[i])]

\* String.prototype.normalize('NFKD')
NFKD(s) ==
    Flatten([i \in 1..Len(s) |->
               IF s[i] = "<e-acute>" THEN <<"e", "<acute>">> ELSE <<s[i]>>])

\* replace(/[class]+/g, r): every maximal run of positions marked in isRun
\* becomes the string r.
ReplaceRuns(s, isRun, r) ==
    LET marked == [i \in 1..Len(s) |->
                     [c |-> s[i], run |-> isRun[i],
                      first |-> isRun[i] /\ (i = 1 \/ ~isRun[i - 1])]]
        kept == SelectSeq(marked, LAMBDA m : ~m.run \/ m.first)
    IN  Flatten([i \in 1..Len(kept) |-> IF kept[i].run THEN r ELSE <<kept[i].c>>])

\* replace(/-{2,}/g, '-')
CollapseHyphens(s) == ReplaceRuns(s, [i \in 1..Len(s) |-> s[i] = "-"], <<"-">>)

\* replace(/^-+|-+$/g, '')
RECURSIVE StripHyphens(_)
StripHyphens(s) ==
    IF s # <<>> /\ Head(s) = "-" THEN StripHyphens(Tail(s))
    ELSE IF s # <<>> /\ s[Len(s)] = "-" THEN StripHyphens(SubSeq(s, 1, Len(s) - 1))
    ELSE s

\* split(/\s+/).filter(Boolean): the maximal runs of non-whitespace
RECURSIVE SplitWs(_)
SplitWs(s) ==
    LET t == TrimLeft(s)
    IN  IF t = <<>> THEN <<>>
        ELSE LET stops == { i \in 1..Len(t) : IsSpaceChar(t[i]) }
                 n == IF stops = {} THEN Len(t) + 1
                      ELSE CHOOSE i \in stops : \A j \in stops : i <= j
             IN  <<SubSeq(t, 1, n - 1)>> \o SplitWs(SubSeq(t, n, Len(t)))

\* Array.prototype.join
RECURSIVE Join(_, _)
Join(ws, sep) ==
    IF ws = <<>> THEN <<>>
    ELSE IF Len(ws) = 1 THEN ws[1]
    ELSE ws[1] \o sep \o Join(Tail(ws), sep)

(***************************************************************************)
(* lib/entities.ts                                                         *)
(***************************************************************************)
\* normalizeEntityName
normalizeEntityName(s) ==
    LET lowered == NFKD(Trim(ToLowerCase(s)))
        hyph == ReplaceRuns(lowered,
                            [i \in 1..Len(lowered) |->
                               lowered[i] = "_" \/ IsSpaceChar(lowered[i])],
                            <<"-">>)
        clean == [i \in 1..Len(hyph) |->
                    IF hyph[i] \in LowerAlnum \cup {"-"} THEN hyph[i] ELSE "-"]
    IN  StripHyphens(CollapseHyphens(clean))

\* A Map<string, number> is the sequence of its entries [k, v] in insertion
\* order.
MapHas(m, k) == \E i \in 1..Len(m) : m[i].k = k

MapGet(m, k, dflt) ==
    IF MapHas(m, k) THEN m[CHOOSE i \in 1..Len(m) : m[i].k = k].v ELSE dflt

MapSet(m, k, v) ==
    IF MapHas(m, k)
    THEN [i \in 1..Len(m) |-> IF m[i].k = k THEN [k |-> k, v |-> v] ELSE m[i]]
    ELSE Append(m, [k |-> k, v |-> v])

MapKeys(m) == [i \in 1..Len(m) |-> m[i].k]

\* line 27: Math.max(0, Number.isFinite(e.weight) ? e.weight : 1)
EntityWeight(e) ==
    QMax(Zero, IF e.weight # Undef /\ IsFinite(e.weight[1]) THEN e.weight[1] ELSE One)

\* toEntityMap: canonical entity -> accumulated weight
RECURSIVE toEntityMapFrom(_, _)
toEntityMapFrom(list, map) ==
    IF list = <<>> THEN map
    ELSE LET e == Head(list)
             key == normalizeEntityName(e.entity)
         IN  IF key = <<>> THEN toEntityMapFrom(Tail(list), map)
             ELSE toEntityMapFrom(Tail(list),
                      MapSet(map, key, QAdd(MapGet(map, key, Zero), EntityWeight(e))))

toEntityMap(list) == toEntityMapFrom(list, <<>>)

\* new Set([...A.keys(), ...B.keys()]) in insertion order
UnionKeys(A, B) ==
    MapKeys(A) \o SelectSeq(MapKeys(B), LAMBDA k : ~MapHas(A, k))

\* weightedJaccard
weightedJaccardSumUnion(A, B) ==
    IF Len(A) = 0 /\ Len(B) = 0 THEN Zero
    ELSE LET keys == UnionKeys(A, B)
             inter == QSum([i \in 1..Len(keys) |->
                              QMin(MapGet(A, keys[i], Zero), MapGet(B, keys[i], Zero))])
             uni   == QSum([i \in 1..Len(keys) |->
                              QAdd(MapGet(A, keys[i], Zero), MapGet(B, keys[i], Zero))])
         IN  IF uni = Zero THEN Zero ELSE QDiv(inter, uni)

\* weightedJaccard giving 1 where the union's total weight is 0
weightedJaccardZeroUnionOne(A, B) ==
    IF Len(A) = 0 /\ Len(B) = 0 THEN Zero
    ELSE LET keys == UnionKeys(A, B)
             inter == QSum([i \in 1..Len(keys) |->
                              QMin(MapGet(A, keys[i], Zero), MapGet(B, keys[i], Zero))])
             uni   == QSum([i \in 1..Len(keys) |->
                              QMax(MapGet(A, keys[i], Zero), MapGet(B, keys[i], Zero))])
         IN  IF uni = Zero THEN One ELSE QDiv(inter, uni)

weightedJaccard(A, B) ==
    IF Len(A) = 0 /\ Len(B) = 0 THEN Zero
    ELSE LET keys == UnionKeys(A, B)
             inter == QSum([i \in 1..Len(keys) |->
                              QMin(MapGet(A, keys[i], Zero), MapGet(B, keys[i], Zero))])
             uni   == QSum([i \in 1..Len(keys) |->
                              QMax(MapGet(A, keys[i], Zero), MapGet(B, keys[i], Zero))])
         IN  IF uni = Zero THEN Zero ELSE QDiv(inter, uni)

(***************************************************************************)
(* lib/tags.ts                                                             *)
(***************************************************************************)
\* kebabize
kebabize(s) ==
    LET lowered  == NFKD(ToLowerCase(s))
        replaced == ReplaceRuns(lowered,
                       [i \in 1..Len(lowered) |->
                          ~(lowered[i] \in LowerAlnum \cup {"-"} \/ IsSpaceChar(lowered[i]))],
                       <<" ">>)
        spaced   == ReplaceRuns(replaced,
                       [i \in 1..Len(replaced) |-> replaced[i] = "_"], <<" ">>)
        words    == SplitWs(Trim(spaced))
    IN  StripHyphens(CollapseHyphens(Join(words, <<"-">>)))

\* STOPLIST
STOPLIST ==
    { <<"h", "e", "l", "l", "o">>,
      <<"q", "u", "e", "s", "t", "i", "o", "n">>,
      <<"e", "x", "a", "m", "p", "l", "e">>,
      <<"e", "x", "a", "m", "p", "l", "e", "s">>,
      <<"s", "i", "m", "p", "l", "e">>,
      <<"s", "i", "m", "p", "l", "e", "_", "c", "o", "d", "e">>,
      <<"g", "r", "e", "e", "t", "i", "n", "g">>,
      <<"p", "u", "r", "p", "o", "s", "e">>,
      <<"n", "o", "t", "e">>,
      <<"n", "o", "t", "e", "s">>,
      <<"m", "i", "s", "c">>,
      <<"g", "e", "n", "e", "r", "a", "l">>,
      <<"r", "a", "n", "d", "o", "m">>,
      <<"t", "e", "s", "t">>,
      <<"t", "o", "d", "o">> }

\* CANON_MAP, an object literal: its own properties
CANON_MAP ==
    << [k |-> <<"j", "s">>,
        v |-> <<"j", "a", "v", "a", "s", "c", "r", "i", "p", "t">>],
       [k |-> <<"n", "o", "d", "e">>,
        v |-> <<"n", "o", "d", "e", "j", "s">>],
       [k |-> <<"n", "o", "d", "e", "-", "j", "s">>,
        v |-> <<"n", "o", "d", "e", "j", "s">>],
       [k |-> <<"n", "o", "d", "e", "j", "s", "-", "s", "t", "r", "e", "a", "m">>,
        v |-> <<"n", "o", "d", "e", "j", "s", "-", "s", "t", "r", "e", "a", "m", "s">>],
       [k |-> <<"t", "s">>,
        v |-> <<"t", "y", "p", "e", "s", "c", "r", "i", "p", "t">>],
       [k |-> <<"r", "e", "a", "c", "t", "j", "s">>,
        v |-> <<"r", "e", "a", "c", "t">>],
       [k |-> <<"n", "e", "x", "t", "j", "s">>,
        v |-> <<"n", "e", "x", "t", ".", "j", "s">>],
       [k |-> <<"p", "o", "w", "e", "r", " ", "r", "a", "n", "g", "e", "r", "s">>,
        v |-> <<"p", "o", "w", "e", "r", "-", "r", "a", "n", "g", "e", "r", "s">>] >>

\* CANON_MAP['constructor'] is the property every object literal inherits:
\* the function Object, which is truthy and not a string
ObjectConstructor == <<"[Function: Object]">>

IsString(t) == t # ObjectConstructor

\* canonicalize
canonicalize(tag) ==
    IF MapHas(CANON_MAP, tag) THEN MapGet(CANON_MAP, tag, tag)
    ELSE IF tag = <<"c", "o", "n", "s", "t", "r", "u", "c", "t", "o", "r">> THEN ObjectConstructor
    ELSE tag

\* s.split('-').filter(Boolean).length
WordCount(s) ==
    Cardinality({ i \in 1..Len(s) : s[i] # "-" /\ (i = 1 \/ s[i - 1] = "-") })

\* the loop of normalizeTags (lines 57-71)
RECURSIVE normalizeTagsFrom(_, _)
normalizeTagsFrom(tags, out) ==
    IF tags = <<>> THEN out
    ELSE LET t == Head(tags)
             s == kebabize(t)
             c == canonicalize(s)
             seen == { out[i] : i \in 1..Len(out) }
         IN  IF ~IsString(t) THEN normalizeTagsFrom(Tail(tags), out)
             ELSE IF s = <<>> THEN normalizeTagsFrom(Tail(tags), out)
             ELSE IF WordCount(s) > 3 THEN normalizeTagsFrom(Tail(tags), out)
             ELSE IF c \in STOPLIST THEN normalizeTagsFrom(Tail(tags), out)
             ELSE IF c \in seen THEN normalizeTagsFrom(Tail(tags), out)
             ELSE normalizeTagsFrom(Tail(tags), Append(out, c))

MaxNormalizedTags == 10

\* normalizeTags of an array
normalizeTags(tags) == SubSeq(normalizeTagsFrom(tags, <<>>), 1,
                              Min2(MaxNormalizedTags, Len(normalizeTagsFrom(tags, <<>>))))

\* new Set(a.map(kebabize))
KebabSet(a) == { kebabize(a[i]) : i \in 1..Len(a) }

\* computeTagJaccard dividing by the size of A instead of the union
computeTagJaccardOverA(a, b) ==
    LET A == KebabSet(a)
        B == KebabSet(b)
        inter == Cardinality(A \cap B)
    IN  IF A = {} /\ B = {} THEN Zero
        ELSE IF Cardinality(A) = 0 THEN Zero ELSE Q(inter, Cardinality(A))

\* computeTagJaccard
computeTagJaccard(a, b) ==
    LET A == KebabSet(a)
        B == KebabSet(b)
        inter == Cardinality(A \cap B)
        union == Cardinality(A) + Cardinality(B) - inter
    IN  IF A = {} /\ B = {} THEN Zero
        ELSE IF union = 0 THEN Zero ELSE Q(inter, union)

BM25_K1 == Q(12, 10)

BM25_B == Q(75, 100)

AvgDl == 6

\* idf?.[t] ?? 1 : the idf table is Undef or a Map from tag to number
IdfOf(idf, t) == IF idf = Undef THEN One ELSE MapGet(idf[1], t, One)

\* computeTagBM25 with the default k1 and b
computeTagBM25(query, doc, idf) ==
    LET q  == KebabSet(query)
        d  == KebabSet(doc)
        dl == IF Cardinality(d) = 0 THEN 1 ELSE Cardinality(d)
        \* tf + k1 * (1 - b + b * (dl / avgdl)) with tf = 1
        denom == QAdd(One, QMul(BM25_K1,
                     QAdd(QAdd(One, QMul(Q(-1, 1), BM25_B)),
                          QMul(BM25_B, Q(dl, AvgDl)))))
        term(t) == QMul(IdfOf(idf, t), QDiv(QAdd(BM25_K1, One), denom))
        hits == SeqOfSet(q \cap d)
    IN  QSum([i \in 1..Len(hits) |-> term(hits[i])])

SquashK == 3

\* line 106 of linkScoring.ts, lines 156 of tags.ts: Math.max(0, Math.min(1, x)).
\* Both infinities clamp to the nearer end; NaN stays NaN.
clamp01(x) ==
    IF x = NaN THEN NaN
    ELSE IF ~IsFinite(x) THEN (IF x[1] > 0 THEN One ELSE Zero)
    ELSE QMax(Zero, QMin(One, x))

\* computeTagScore.  bm25 + 3 = 0 makes the float division -3/0 = -Infinity,
\* and 0.7*j + 0.3*(-Infinity) = -Infinity.
computeTagScore(a, b, idf) ==
    LET j     == computeTagJaccard(a, b)
        bm25  == computeTagBM25(a, b, idf)
        bm25n == QDiv(bm25, QAdd(bm25, Q(SquashK, 1)))
        mixed == IF IsFinite(bm25n)
                 THEN QAdd(QMul(Q(7, 10), j), QMul(Q(3, 10), bm25n))
                 ELSE bm25n
    IN  clamp01(mixed)

(***************************************************************************)
(* lib/linkScoring.ts                                                      *)
(***************************************************************************)
\* aggregateSemantic
aggregateSemantic(top, method) ==
    LET vals == SelectSeq(top, IsFinite)
    IN  IF Len(vals) = 0 THEN Zero
        ELSE IF method = "max" THEN QMaxOf(vals)
        ELSE clamp01(QDiv(QSum(vals), Q(Len(vals), 1)))

\* computeEntityScore
computeEntityScore(entitiesA, entitiesB) ==
    weightedJaccard(toEntityMap(entitiesA), toEntityMap(entitiesB))

\* computeTagFeature
computeTagFeature(tagsA, tagsB, tagIdf) == computeTagScore(tagsA, tagsB, tagIdf)

\* input.structural?.x ?? 0
StructuralOf(structural, name) ==
    IF structural = Undef THEN Zero
    ELSE OrDefault(structural[1][name], Zero)

\* computeFeatureScores
computeFeatureScores(in) ==
    [semantic        |-> aggregateSemantic(in.top5_cosines, OrDefault(in.aggregate, "mean")),
     entity_score    |-> computeEntityScore(in.entitiesA, in.entitiesB),
     tag_score       |-> computeTagFeature(in.tagsA, in.tagsB, in.tagIdf),
     reference_score |-> clamp01(StructuralOf(in.structural, "reference_score")),
     temporal_score  |-> clamp01(StructuralOf(in.structural, "temporal_score")),
     session_score   |-> clamp01(StructuralOf(in.structural, "session_score"))]

\* line 76 with the weights of semantic and entity_score exchanged
WeightedSumWeightsExchanged(f) ==
    QAdd(QAdd(QAdd(QMul(Q(2, 10), f.semantic), QMul(Q(6, 10), f.entity_score)),
              QMul(Q(15, 100), f.tag_score)),
         QMul(Q(5, 100), QAdd(QAdd(f.reference_score, f.temporal_score), f.session_score)))

\* line 76: the weighted sum
WeightedSum(f) ==
    QAdd(QAdd(QAdd(QMul(Q(6, 10), f.semantic), QMul(Q(2, 10), f.entity_score)),
              QMul(Q(15, 100), f.tag_score)),
         QMul(Q(5, 100), QAdd(QAdd(f.reference_score, f.temporal_score), f.session_score)))

\* line 77: the guardrail condition
Guardrail(f) == QLt(f.semantic, Q(35, 100)) /\ QLt(f.entity_score, Q(2, 10))

\* finalLinkScore
finalLinkScoreNoGuardrail(f) == clamp01(WeightedSum(f))

finalLinkScoreGuardFlipped(f) ==
    clamp01(IF QLt(Q(35, 100), f.semantic) /\ QLt(Q(2, 10), f.entity_score)
            THEN QMul(WeightedSum(f), Q(1, 2))
            ELSE WeightedSum(f))

finalLinkScore(f) ==
    clamp01(IF Guardrail(f) THEN QMul(WeightedSum(f), Q(1, 2)) ELSE WeightedSum(f))

\* classifyLink
classifyLinkStrict(s) ==
    IF QLt(Q(55, 100), s) THEN "hard"
    ELSE IF QLt(Q(45, 100), s) THEN "soft"
    ELSE "none"

classifyLink(s) ==
    IF QLe(Q(55, 100), s) THEN "hard"
    ELSE IF QLe(Q(45, 100), s) THEN "soft"
    ELSE "none"

(***************************************************************************)
(* Calls of the scoring library.  A run enters at computeFeatureScores     *)
(* (as the link routes do), at finalLinkScore with a FeatureScores value,  *)
(* or at classifyLink with a score.                                        *)
(***************************************************************************)
MaxCosines == 2

MaxEntities == 2

MaxTags == 2

GridSteps == 2

RECURSIVE ListsUpTo(_, _)
ListsUpTo(S, n) ==
    IF n = 0 THEN { <<>> }
    ELSE LET shorter == ListsUpTo(S, n - 1)
         IN  shorter \cup { Append(l, x) : l \in { y \in shorter : Len(y) = n - 1 },
                                           x \in S }

CosineValues == { Zero, Q(1, 2), One, Q(3, 2), Q(-1, 2), NaN }

EntityItems ==
    { [entity |-> <<"A", " ", "b">>, weight |-> Undef],
      [entity |-> <<"a", "_", "b">>, weight |-> Some(Q(2, 1))],
      [entity |-> <<"c">>,           weight |-> Some(Q(-1, 1))],
      [entity |-> <<"!">>,           weight |-> Some(Q(3, 1))] }

RawTags == { <<"J", "S">>, <<"j", "s">>, <<"a", "_", "b">>, <<"!">> }

IdfTables ==
    { Undef,
      Some(<<[k |-> <<"j", "s">>, v |-> Q(2, 1)], [k |-> <<"a", "-", "b">>, v |-> Q(-1, 1)]>>) }

StructuralInputs ==
    { Undef,
      Some([reference_score |-> Undef, temporal_score |-> Undef, session_score |-> Undef]),
      Some([reference_score |-> Some(Zero), temporal_score |-> Some(Zero),
            session_score |-> Some(Zero)]),
      Some([reference_score |-> Some(Q(1, 2)), temporal_score |-> Some(Q(2, 1)),
            session_score |-> Some(Q(-1, 1))]) }

BaseEntities == << [entity |-> <<"A", " ", "b">>, weight |-> Undef] >>

BaseTags == << <<"j", "s">> >>

FeatureInput(cos, agg, eA, eB, tA, tB, idf, st) ==
    [top5_cosines |-> cos, aggregate |-> agg, entitiesA |-> eA, entitiesB |-> eB,
     tagsA |-> tA, tagsB |-> tB, tagIdf |-> idf, structural |-> st]

\* The inputs of computeFeatureScores: one signal varies, the others are
\* those of a note compared with itself.
FeatureInputs ==
    { FeatureInput(cos, agg, BaseEntities, BaseEntities, BaseTags, BaseTags, Undef, st) :
         cos \in ListsUpTo(CosineValues, MaxCosines),
         agg \in { Undef, Some("mean"), Some("max") },
         st \in StructuralInputs }
    \cup
    { FeatureInput(<<One>>, Some("mean"), eA, eB, BaseTags, BaseTags, Undef, Undef) :
         eA \in ListsUpTo(EntityItems, MaxEntities),
         eB \in ListsUpTo(EntityItems, MaxEntities) }
    \cup
    { FeatureInput(<<One>>, Some("mean"), BaseEntities, BaseEntities, tA, tB, idf, Undef) :
         tA \in ListsUpTo(RawTags, MaxTags),
         tB \in ListsUpTo(RawTags, MaxTags),
         idf \in IdfTables }

UnitGrid == { Q(k, GridSteps) : k \in 0..GridSteps }

\* FeatureScores values handed to finalLinkScore: a grid of [0,1] and the
\* values next to the guardrail thresholds.
FeatureGrid ==
    [semantic : UnitGrid \cup { Q(34, 100), Q(35, 100) },
     entity_score : UnitGrid \cup { Q(19, 100), Q(20, 100) },
     tag_score : UnitGrid,
     reference_score : UnitGrid, temporal_score : UnitGrid, session_score : UnitGrid]

\* scores handed to classifyLink
ScoreSamples ==
    UnitGrid \cup { Q(449999, 1000000), Q(45, 100), Q(549999, 1000000), Q(55, 100) }

ChunkIdle ==
    /\ input = <<>>
    /\ opts = Undef
    /\ text = <<>>
    /\ start = 0
    /\ ord = 0
    /\ chunks = <<>>
    /\ trail = <<>>
    /\ cpc = "idle"

ScoreInit ==
    /\ ChunkIdle
    /\ MatchIdle
    /\ LibIdle
    /\ NoteIdle
    /\ EditorIdle
    /\ decision = ""
    /\ \/ /\ finput \in FeatureInputs
          /\ feats = Undef
          /\ score = Undef
          /\ fpc = "features"
       \/ /\ finput = Undef
          /\ feats \in FeatureGrid
          /\ score = Undef
          /\ fpc = "score"
       \/ /\ finput = Undef
          /\ feats = Undef
          /\ score \in ScoreSamples
          /\ fpc = "classify"

\* const feats = computeFeatureScores(featureInput)
ComputeFeatures ==
    /\ fpc = "features"
    /\ feats' = computeFeatureScores(finput)
    /\ fpc' = "score"
    /\ UNCHANGED <<finput, score, decision>>
    /\ UNCHANGED chunkVars
    /\ UNCHANGED matchVars
    /\ UNCHANGED libVars
    /\ UNCHANGED noteVars
    /\ UNCHANGED editorVars

\* const score = finalLinkScore(feats)
FinalScore ==
    /\ fpc = "score"
    /\ score' = finalLinkScore(feats)
    /\ fpc' = "classify"
    /\ UNCHANGED <<finput, feats, decision>>
    /\ UNCHANGED chunkVars
    /\ UNCHANGED matchVars
    /\ UNCHANGED libVars
    /\ UNCHANGED noteVars
    /\ UNCHANGED editorVars

\* const decision = classifyLink(score)
Classify ==
    /\ fpc = "classify"
    /\ decision' = classifyLink(score)
    /\ fpc' = "done"
    /\ UNCHANGED <<finput, feats, score>>
    /\ UNCHANGED chunkVars
    /\ UNCHANGED matchVars
    /\ UNCHANGED libVars
    /\ UNCHANGED noteVars
    /\ UNCHANGED editorVars

ScoreNext == ComputeFeatures \/ FinalScore \/ Classify

SpecScore == ScoreInit /\ [][ScoreNext]_vars

(***************************************************************************)
(* Claims about the scoring library (checked under SpecScore).             *)
(***************************************************************************)
FeaturesComputed == finput # Undef /\ fpc \in {"score", "classify", "done"}

AllInUnit(f) ==
    /\ InUnit(f.semantic)
    /\ InUnit(f.entity_score)
    /\ InUnit(f.tag_score)
    /\ InUnit(f.reference_score)
    /\ InUnit(f.temporal_score)
    /\ InUnit(f.session_score)

\* C5 (as claimed): for every input of computeFeatureScores (any finite
\* cosine values, either aggregate mode, any entities, tags, idf table and
\* structural signals) each of the six returned features lies in [0,1].
C5_FeaturesInUnitInterval == FeaturesComputed => AllInUnit(feats)

\* C6: whenever the guardrail condition holds (semantic < 0.35 and
\* entity_score < 0.20), then for all tag and structural scores in [0,1] the
\* decision classifyLink(finalLinkScore(features)) is 'none'.
C6_GuardrailGivesNone ==
    ( /\ fpc = "done"
      /\ feats # Undef
      /\ Guardrail(feats)
      /\ InUnit(feats.tag_score)
      /\ InUnit(feats.reference_score)
      /\ InUnit(feats.temporal_score)
      /\ InUnit(feats.session_score) )
    => decision = "none"

\* C6 witness: the guardrail holds just below both thresholds with the tag
\* and structural scores all 1, and the pair has been classified.
C6_Witness ==
    /\ fpc = "done"
    /\ feats # Undef
    /\ feats.semantic = Q(34, 100)
    /\ feats.entity_score = Q(19, 100)
    /\ feats.tag_score = One
    /\ feats.reference_score = One
    /\ feats.temporal_score = One
    /\ feats.session_score = One
    /\ decision = "none"

\* The FeatureScores that differ from f in the one feature `name` only and
\* are at least as large there.
Raised(f, name) ==
    { [f EXCEPT ![name] = v] :
        v \in { w \in UnitGrid \cup { Q(19, 100), Q(20, 100), Q(34, 100), Q(35, 100) } :
                  QLe(f[name], w) } }

\* C7: finalLinkScore is non-decreasing in each of semantic, entity_score and
\* tag_score with the other five features fixed (all in [0,1]); and raising
\* semantic (or entity_score) of a guardrailed input to its threshold 0.35
\* (0.20), the weighted sum being positive, gives a strictly greater score.
\* Checked on the calls of finalLinkScore with a FeatureScores value of
\* FeatureGrid, against every value of the grid that raises one feature.
C7_ScoreMonotone ==
    ( fpc \in {"classify", "done"} /\ finput = Undef /\ feats # Undef /\ AllInUnit(feats) ) =>
       /\ \A name \in {"semantic", "entity_score", "tag_score"} :
             \A g \in Raised(feats, name) : QLe(score, finalLinkScore(g))
       /\ Guardrail(feats) =>
             LET gs == [feats EXCEPT !.semantic = Q(35, 100)]
                 ge == [feats EXCEPT !.entity_score = Q(20, 100)]
             IN  /\ QLt(Zero, WeightedSum(gs)) => QLt(score, finalLinkScore(gs))
                 /\ QLt(Zero, WeightedSum(ge)) => QLt(score, finalLinkScore(ge))

\* C7 witness: a guardrailed input just below the semantic threshold whose
\* halved score is positive.
C7_Witness ==
    /\ fpc = "done"
    /\ finput = Undef
    /\ feats # Undef
    /\ AllInUnit(feats)
    /\ feats.semantic = Q(34, 100)
    /\ QLt(feats.entity_score, Q(20, 100))
    /\ score = QMul(WeightedSum(feats), Q(1, 2))
    /\ QLt(Zero, score)
    /\ QLt(score, finalLinkScore([feats EXCEPT !.semantic = Q(35, 100)]))

\* C8: classifyLink is a total three-way partition with inclusive lower
\* bounds: 'hard' iff score >= 0.55, 'soft' iff 0.45 <= score < 0.55, 'none'
\* iff score < 0.45; so 0.55 is hard, 0.549999 soft, 0.45 soft, 0.449999 none.
C8_ClassifyThresholds ==
    fpc = "done" =>
       /\ decision \in {"hard", "soft", "none"}
       /\ decision = "hard" <=> QLe(Q(55, 100), score)
       /\ decision = "soft" <=> (QLe(Q(45, 100), score) /\ QLt(score, Q(55, 100)))
       /\ decision = "none" <=> QLt(score, Q(45, 100))
       /\ score = Q(55, 100) => decision = "hard"
       /\ score = Q(549999, 1000000) => decision = "soft"
       /\ score = Q(45, 100) => decision = "soft"
       /\ score = Q(449999, 1000000) => decision = "none"

\* C8 witness: classifyLink was called with exactly 0.55 and answered 'hard'.
C8_Witness ==
    /\ fpc = "done"
    /\ finput = Undef
    /\ feats = Undef
    /\ score = Q(55, 100)
    /\ decision = "hard"

\* A note scored against an identical copy of itself: cosine 1, the same
\* non-empty tag list and the same non-empty entity list with positive
\* weights on both sides.
IdenticalDocs ==
    /\ finput # Undef
    /\ finput.top5_cosines = <<One>>
    /\ finput.tagsA # <<>>
    /\ finput.tagsA = finput.tagsB
    /\ finput.entitiesA # <<>>
    /\ finput.entitiesA = finput.entitiesB
    /\ \A i \in 1..Len(finput.entitiesA) : QLt(Zero, EntityWeight(finput.entitiesA[i]))

NonNegativeIdf(idf) ==
    idf = Undef \/ \A i \in 1..Len(idf[1]) : QLe(Zero, idf[1][i].v)

-----------------------------------------------------------------------------
(***************************************************************************)
(* GET /api/notes/[id]/links                                               *)
(* (web/src/app/api/notes/[id]/links/route.ts)                             *)
(*                                                                         *)
(* A persisted JSON column is a record [json, items]: json is "none" for a *)
(* null or empty column, "malformed" for text JSON.parse rejects, "object" *)
(* for valid JSON that is not an array and "array" for an array, whose     *)
(* elements are then `items`.                                              *)
(***************************************************************************)

NoBlob == [json |-> "none", items |-> <<>>]

MalformedBlob == [json |-> "malformed", items |-> <<>>]

ObjectBlob == [json |-> "object", items |-> <<>>]

ArrayBlob(items) == [json |-> "array", items |-> items]

\* an element of an embedding array: a number, or something that is not one
Num(n) == [isNumber |-> TRUE, v |-> n]

NotNum == [isNumber |-> FALSE, v |-> 0]

\* the JSON array of the numbers of `v`
VecBlob(v) == ArrayBlob([i \in 1..Len(v) |-> Num(v[i])])

\* safeParseJSON: null for a missing column and for malformed JSON
safeParseJSON(raw) ==
    IF raw.json \in {"none", "malformed"} THEN Undef ELSE Some(raw)

\* parseEmbedding: the numbers of the array, null when the value is no array
parseEmbedding(raw) ==
    LET v == safeParseJSON(raw)
    IN  IF v # Undef /\ v[1].json = "array"
        THEN LET nums == SelectSeq(v[1].items, LAMBDA x : x.isNumber)
             IN  Some([i \in 1..Len(nums) |-> nums[i].v])
        ELSE Undef

\* parseTags: the array (its elements are strings here), [] otherwise
parseTags(raw) ==
    LET arr == safeParseJSON(raw)
    IN  IF arr # Undef /\ arr[1].json = "array" THEN arr[1].items ELSE <<>>

\* parseEntities: items carry optional `entity`, `name` and `weight`
RECURSIVE parseEntitiesFrom(_)
parseEntitiesFrom(items) ==
    IF items = <<>> THEN <<>>
    ELSE LET it == Head(items)
             entity == IF it.entity # Undef THEN it.entity[1]
                       ELSE IF it.name # Undef THEN it.name[1] ELSE <<>>
             rest == parseEntitiesFrom(Tail(items))
         IN  IF entity = <<>> THEN rest
             ELSE <<[entity |-> entity,
                     weight |-> IF it.weight # Undef /\ IsFinite(it.weight[1])
                                THEN it.weight ELSE Undef]>> \o rest

parseEntities(raw) ==
    LET arr == safeParseJSON(raw)
    IN  IF arr # Undef /\ arr[1].json = "array" THEN parseEntitiesFrom(arr[1].items)
        ELSE <<>>

\* Math.sqrt, on the sums of squares that occur (the embeddings of the
\* model have integral norms)
Sqrt(n) == CHOOSE k \in 0..n : k * k = n

RECURSIVE DotProduct(_, _)
DotProduct(a, b) ==
    IF a = <<>> THEN 0 ELSE Head(a) * Head(b) + DotProduct(Tail(a), Tail(b))

\* cosineSim of two optional vectors
cosineSim(a, b) ==
    IF a = Undef \/ b = Undef THEN Zero
    ELSE IF Len(a[1]) # Len(b[1]) \/ Len(a[1]) = 0 THEN Zero
    ELSE LET dot == DotProduct(a[1], b[1])
             na == DotProduct(a[1], a[1])
             nb == DotProduct(b[1], b[1])
         IN  IF na <= 0 \/ nb <= 0 THEN Zero
             ELSE QMax(Zero, QMin(One, Q(dot, Sqrt(na) * Sqrt(nb))))

\* cosineSim of GET /api/links (web/src/app/api/links/route.ts)
linksCosineSim(a, b) ==
    IF a = Undef \/ b = Undef THEN Zero
    ELSE IF Len(a[1]) # Len(b[1]) \/ Len(a[1]) = 0 THEN Zero
    ELSE LET dot == DotProduct(a[1], b[1])
             na == DotProduct(a[1], a[1])
             nb == DotProduct(b[1], b[1])
         IN  IF na <= 0 \/ nb <= 0 THEN Zero
             ELSE QMax(Zero, QMin(One, Q(dot, Sqrt(na) * Sqrt(nb))))

\* cosineSimilarity of the search route with `dot / denom` unguarded
cosineSimilarityNoDenomGuard(a, b) ==
    IF a = Undef \/ b = Undef THEN Zero
    ELSE IF Len(a[1]) # Len(b[1]) THEN Zero
    ELSE Q(DotProduct(a[1], b[1]),
           Sqrt(DotProduct(a[1], a[1])) * Sqrt(DotProduct(b[1], b[1])))

\* cosineSimilarity of the search route (app/api/search/route.ts)
cosineSimilarity(a, b) ==
    IF a = Undef \/ b = Undef THEN Zero
    ELSE IF Len(a[1]) # Len(b[1]) THEN Zero
    ELSE LET dot == DotProduct(a[1], b[1])
             na == DotProduct(a[1], a[1])
             nb == DotProduct(b[1], b[1])
             denom == Sqrt(na) * Sqrt(nb)
         IN  IF denom > 0 THEN Q(dot, denom) ELSE Zero

\* Number(x.toFixed(3)) for a finite x >= 0: the nearest multiple of 1/1000
ToFixed3(x) == Q((x[1] * 2000 + x[2]) \div (2 * x[2]), 1000)

\* Array.prototype.sort with the comparator (a, b) => b[field] - a[field]:
\* descending, and stable.
\* the same insertion, a new element going before its equals
RECURSIVE InsertDescBeforeEqual(_, _, _)
InsertDescBeforeEqual(sorted, m, field) ==
    IF sorted = <<>> THEN <<m>>
    ELSE IF QLe(Head(sorted)[field], m[field]) THEN <<m>> \o sorted
    ELSE <<Head(sorted)>> \o InsertDescBeforeEqual(Tail(sorted), m, field)

RECURSIVE InsertDesc(_, _, _)
InsertDesc(sorted, m, field) ==
    IF sorted = <<>> THEN <<m>>
    ELSE IF QLt(Head(sorted)[field], m[field]) THEN <<m>> \o sorted
    ELSE <<Head(sorted)>> \o InsertDesc(Tail(sorted), m, field)

RECURSIVE SortDescFrom(_, _, _)
SortDescFrom(todo, sorted, field) ==
    IF todo = <<>> THEN sorted
    ELSE SortDescFrom(Tail(todo), InsertDesc(sorted, Head(todo), field), field)

\* no sort at all
SortDescNone(seq, field) == seq

SortDesc(seq, field) == SortDescFrom(seq, <<>>, field)

\* arr.slice(0, n), and `if (arr.length > n) arr.length = n`
Truncate(seq, n) == SubSeq(seq, 1, Min2(Len(seq), n))

\* lines 117-121 and 139-143: chunk rows to { idx, vec } (the chunk text
\* takes no part in matching)
ChunkVecs(rows) ==
    [i \in 1..Len(rows) |-> [idx |-> i - 1, vec |-> parseEmbedding(rows[i].embedding)]]

\* `chs.find(t => Array.isArray(t.vec) && t.vec.length)?.vec?.length || 0`
RECURSIVE FirstDim(_)
FirstDim(chs) ==
    IF chs = <<>> THEN 0
    ELSE IF Head(chs).vec # Undef /\ Len(Head(chs).vec[1]) # 0 THEN Len(Head(chs).vec[1])
    ELSE FirstDim(Tail(chs))

\* lines 145-149: `dim`
SharedDim(targetChunks, cand) ==
    LET tv == FirstDim(targetChunks)
        cv == FirstDim(cand)
    IN  IF tv # 0 /\ cv # 0 /\ tv = cv THEN tv ELSE 0

\* the (t, c) pairs the loop body runs for, in the order of the two loops
\* (lines 153-156): chunks without a vector of length dim are passed over
LoopPairs(targetChunks, cand, dim) ==
    LET HasDim(ch) == ch.vec # Undef /\ Len(ch.vec[1]) = dim
        all == Flatten([i \in 1..Len(targetChunks) |->
                          [j \in 1..Len(cand) |-> [t |-> targetChunks[i], c |-> cand[j]]]])
    IN  SelectSeq(all, LAMBDA pr : HasDim(pr.t) /\ HasDim(pr.c))

\* the loop body with the maximum tracked inside `if (s >= min)`
RECURSIVE CrossLoopMaxOfMatches(_, _, _, _)
CrossLoopMaxOfMatches(pairs, min, cos, matches) ==
    IF pairs = <<>> THEN [cos |-> cos, matches |-> matches]
    ELSE LET t == Head(pairs).t
             c == Head(pairs).c
             s == cosineSim(t.vec, c.vec)
         IN  CrossLoopMaxOfMatches(Tail(pairs), min,
                       IF QLe(min, s) /\ QLt(cos, s) THEN s ELSE cos,
                       IF QLe(min, s)
                       THEN Append(matches, [sim |-> s, targetChunkIdx |-> t.idx,
                                             candidateChunkIdx |-> c.idx])
                       ELSE matches)

\* lines 157-167, run for each pair in turn
RECURSIVE CrossLoop(_, _, _, _)
CrossLoop(pairs, min, cos, matches) ==
    IF pairs = <<>> THEN [cos |-> cos, matches |-> matches]
    ELSE LET t == Head(pairs).t
             c == Head(pairs).c
             s == cosineSim(t.vec, c.vec)
         IN  CrossLoop(Tail(pairs), min,
                       IF QLt(cos, s) THEN s ELSE cos,
                       IF QLe(min, s)
                       THEN Append(matches, [sim |-> s, targetChunkIdx |-> t.idx,
                                             candidateChunkIdx |-> c.idx])
                       ELSE matches)

\* lines 174-177 and 180-183: the note-level cosine
NoteLevelCos(targetVec, row) ==
    LET candVec == parseEmbedding(row.embedding)
    IN  IF candVec # Undef /\ Len(candVec[1]) = Len(targetVec)
        THEN cosineSim(Some(targetVec), candVec)
        ELSE Zero

\* the same without the `catch` of lines 179-184: a failing chunk query
\* leaves cos at 0
MatchCandidateNoCatch(targetChunks, targetVec, row, min, topk) ==
    LET cand == ChunkVecs(row.chunks)
        dim == SharedDim(targetChunks, cand)
    IN  IF row.chunkQueryFails
        THEN [cos |-> Zero, matches |-> <<>>, chunkLevel |-> FALSE, dim |-> 0]
        ELSE IF dim > 0 /\ Len(cand) > 0 /\ Len(targetChunks) > 0
        THEN LET r == CrossLoop(LoopPairs(targetChunks, cand, dim), min, Zero, <<>>)
             IN  [cos |-> r.cos,
                  matches |-> Truncate(SortDesc(r.matches, "sim"), topk),
                  chunkLevel |-> TRUE, dim |-> dim]
        ELSE [cos |-> NoteLevelCos(targetVec, row), matches |-> <<>>,
              chunkLevel |-> FALSE, dim |-> dim]

\* lines 129-184: `cos` and `matches` for one candidate row.  chunkLevel
\* tells which branch of line 151 ran.
MatchCandidate(targetChunks, targetVec, row, min, topk) ==
    LET cand == ChunkVecs(row.chunks)
        dim == SharedDim(targetChunks, cand)
        fallback == [cos |-> NoteLevelCos(targetVec, row), matches |-> <<>>,
                     chunkLevel |-> FALSE, dim |-> 0]
    IN  IF row.chunkQueryFails THEN fallback
        ELSE IF dim > 0 /\ Len(cand) > 0 /\ Len(targetChunks) > 0
        THEN LET r == CrossLoop(LoopPairs(targetChunks, cand, dim), min, Zero, <<>>)
             IN  [cos |-> r.cos,
                  matches |-> Truncate(SortDesc(r.matches, "sim"), topk),
                  chunkLevel |-> TRUE, dim |-> dim]
        ELSE [fallback EXCEPT !.dim = dim]

\* lines 219-225: the matches of the response
ResponseMatches(matches) ==
    [i \in 1..Len(matches) |-> [matches[i] EXCEPT !.sim = ToFixed3(matches[i].sim)]]

\* lines 191-199: `featureInput`
RowFeatureInput(tgt, row, cos) ==
    FeatureInput(<<cos>>, Some("mean"), parseEntities(tgt.entities),
                 parseEntities(row.entities), tgt.tags, parseTags(row.tags), Undef,
                 Some([reference_score |-> Some(Zero), temporal_score |-> Some(Zero),
                       session_score |-> Some(Zero)]))

-----------------------------------------------------------------------------
\* The requests and the database contents the route is run on.

MaxChunkRows == 2

MaxCandidates == 2

\* `min` and `topk` after the clamps of lines 70-71 (0.7 and 3 by default)
MinValues == { Q(3, 10), Q(7, 10) }

TopkValues == { 1, 3 }

\* persisted chunk embeddings of the candidate: of two dimensions, and one
\* that does not parse
ChunkBlobs ==
    { MalformedBlob, VecBlob(<<1>>), VecBlob(<<1, 0>>), VecBlob(<<3, 4>>), VecBlob(<<5, 12>>) }

\* persisted chunk embeddings of the target
TargetChunkBlobs == { VecBlob(<<1>>), VecBlob(<<1, 0>>), VecBlob(<<5, 12>>) }

\* persisted note embeddings
NoteBlobs ==
    { NoBlob, MalformedBlob, ObjectBlob, VecBlob(<<1>>), VecBlob(<<3, 4>>),
      ArrayBlob(<<Num(1), NotNum, Num(0)>>) }

BaseEntitiesBlob ==
    ArrayBlob(<< [entity |-> Some(<<"A", " ", "b">>), name |-> Undef, weight |-> Undef] >>)

EntityBlobs ==
    { BaseEntitiesBlob, MalformedBlob,
      ArrayBlob(<< [entity |-> Undef, name |-> Some(<<"a", "_", "b">>),
                    weight |-> Some(Q(2, 1))],
                   [entity |-> Undef, name |-> Undef, weight |-> Some(One)] >>) }

TagBlobs == { ArrayBlob(BaseTags), NoBlob, MalformedBlob }

ChunkRows(blobs) == [i \in 1..Len(blobs) |-> [embedding |-> blobs[i]]]

Row(emb, tags, ents, chunkBlobs, fails) ==
    [id |-> 0, embedding |-> emb, tags |-> tags, entities |-> ents,
     chunks |-> ChunkRows(chunkBlobs), chunkQueryFails |-> fails]

Target(vec, chunkBlobs) ==
    [vec |-> vec, tags |-> BaseTags, entities |-> BaseEntitiesBlob,
     chunks |-> ChunkRows(chunkBlobs)]

\* rows get their position as id
WithIds(rows) == [i \in 1..Len(rows) |-> [rows[i] EXCEPT !.id = i]]

\* one candidate, every combination of chunk embeddings on the two sides
CrossCases ==
    { [target |-> Target(<<1, 0>>, tb),
       candidates |-> <<Row(VecBlob(<<3, 4>>), ArrayBlob(BaseTags), BaseEntitiesBlob, cb,
                            FALSE)>>] :
         tb \in ListsUpTo(TargetChunkBlobs, MaxChunkRows),
         cb \in ListsUpTo(ChunkBlobs, MaxChunkRows) }

\* one candidate, every combination of note-level embeddings
NoteLevelCases ==
    { [target |-> Target(tv, tb),
       candidates |-> <<Row(emb, ArrayBlob(BaseTags), BaseEntitiesBlob, cb, fails)>>] :
         tv \in { <<>>, <<1, 0>>, <<-3, -4>> },
         tb \in { <<>>, <<VecBlob(<<1, 0>>)>>, <<MalformedBlob, VecBlob(<<1, 0>>)>> },
         emb \in NoteBlobs,
         cb \in { <<>>, <<MalformedBlob>>, <<VecBlob(<<1, 0>>)>> },
         fails \in BOOLEAN }

\* several candidates: sound ones, and ones with a missing or malformed
\* column or a failing chunk query
BatchRows ==
    { Row(VecBlob(<<1, 0>>), ArrayBlob(BaseTags), BaseEntitiesBlob, <<cb>>, FALSE) :
         cb \in { MalformedBlob, VecBlob(<<1, 0>>), VecBlob(<<3, 4>>) } }
    \cup
    { Row(VecBlob(<<1, 0>>), tags, BaseEntitiesBlob, <<VecBlob(<<1, 0>>)>>, FALSE) :
         tags \in TagBlobs }
    \cup
    { Row(VecBlob(<<1, 0>>), ArrayBlob(BaseTags), ents, <<VecBlob(<<1, 0>>)>>, FALSE) :
         ents \in EntityBlobs }
    \cup
    { Row(emb, ArrayBlob(BaseTags), BaseEntitiesBlob, <<VecBlob(<<1, 0>>)>>, TRUE) :
         emb \in { VecBlob(<<3, 4>>), MalformedBlob } }
    \cup
    { Row(NoBlob, NoBlob, NoBlob, <<>>, FALSE) }

BatchCases ==
    { [target |-> Target(<<1, 0>>, <<VecBlob(<<1, 0>>)>>), candidates |-> rows] :
         rows \in ListsUpTo(BatchRows, MaxCandidates) }

MatchInit ==
    /\ ChunkIdle
    /\ ScoreIdle
    /\ LibIdle
    /\ NoteIdle
    /\ EditorIdle
    /\ \E cs \in CrossCases \cup NoteLevelCases \cup BatchCases :
          /\ target = cs.target
          /\ candidates = WithIds(cs.candidates)
    /\ \E min \in MinValues, topk \in TopkValues : req = [min |-> min, topk |-> topk]
    /\ nextRow = 1
    /\ locals = Undef
    /\ scored = <<>>
    /\ suggestions = <<>>
    /\ mpc = "map"

\* lines 127-227: the map callback, applied to the next row.  A row whose cos
\* is 0 maps to null (line 185); any other row to its suggestion.
ScoreRow ==
    /\ mpc = "map"
    /\ nextRow <= Len(candidates)
    /\ \E m \in { MatchCandidate(ChunkVecs(target.chunks), target.vec, candidates[nextRow],
                                  req.min, req.topk) } :
          /\ locals' = Some([row |-> nextRow, cos |-> m.cos, matches |-> m.matches,
                             chunkLevel |-> m.chunkLevel, dim |-> m.dim])
          /\ IF m.cos = Zero
             THEN scored' = Append(scored, Undef)
             ELSE \E featureInput \in { RowFeatureInput(target, candidates[nextRow], m.cos) } :
                  \E f \in { computeFeatureScores(featureInput) } :
                  \E sc \in { finalLinkScore(f) } :
                     scored' = Append(scored,
                                      Some([id |-> candidates[nextRow].id, score |-> sc,
                                            decision |-> classifyLink(sc), features |-> f,
                                            matches |-> ResponseMatches(m.matches)]))
    /\ nextRow' = nextRow + 1
    /\ UNCHANGED <<req, target, candidates, suggestions, mpc>>
    /\ UNCHANGED chunkVars
    /\ UNCHANGED scoreVars
    /\ UNCHANGED libVars
    /\ UNCHANGED noteVars
    /\ UNCHANGED editorVars

\* lines 228-245: filter(Boolean), the sort by score, slice(0, 25)
Respond ==
    /\ mpc = "map"
    /\ nextRow > Len(candidates)
    /\ LET kept == SelectSeq(scored, LAMBDA r : r # Undef)
           list == [i \in 1..Len(kept) |-> kept[i][1]]
       IN  /\ scored' = SortDesc(list, "score")
           /\ suggestions' = Truncate(SortDesc(list, "score"), 25)
    /\ mpc' = "done"
    /\ UNCHANGED <<req, target, candidates, nextRow, locals>>
    /\ UNCHANGED chunkVars
    /\ UNCHANGED scoreVars
    /\ UNCHANGED libVars
    /\ UNCHANGED noteVars
    /\ UNCHANGED editorVars

MatchNext == ScoreRow \/ Respond

SpecMatch == MatchInit /\ [][MatchNext]_vars

-----------------------------------------------------------------------------
\* Properties of the cross-chunk matcher.

\* the callback has just run on a row and took the chunk-level branch
ChunkLevelUsed == mpc = "map" /\ locals # Undef /\ locals[1].chunkLevel

\* the greatest of a non-empty set of finite numbers
QSetMax(S) == CHOOSE x \in S : \A y \in S : QLe(y, x)

\* cosineSim of every (target chunk, candidate chunk) pair of the row the
\* callback has just run on
AllPairSims ==
    LET T == ChunkVecs(target.chunks)
        C == ChunkVecs(candidates[locals[1].row].chunks)
    IN  { cosineSim(T[i].vec, C[j].vec) : i \in 1..Len(T), j \in 1..Len(C) }

\* the same, for the pairs whose two vectors have the shared dimension
SharedDimPairSims ==
    LET T == ChunkVecs(target.chunks)
        C == ChunkVecs(candidates[locals[1].row].chunks)
        Has(ch) == ch.vec # Undef /\ Len(ch.vec[1]) = locals[1].dim
        P == { <<i, j>> \in (1..Len(T)) \X (1..Len(C)) : Has(T[i]) /\ Has(C[j]) }
    IN  { cosineSim(T[p[1]].vec, C[p[2]].vec) : p \in P }

\* the matches of the suggestion returned for the row (none when the row is
\* skipped)
ReturnedMatches ==
    LET r == scored[locals[1].row]
    IN  IF r = Undef THEN <<>> ELSE r[1].matches

LoopTargetChunks == ChunkVecs(target.chunks)

LoopCandChunks == ChunkVecs(candidates[locals[1].row].chunks)

\* all (target chunk, candidate chunk) pairs, as positions
AllPairs == (1..Len(LoopTargetChunks)) \X (1..Len(LoopCandChunks))

\* the pairs whose two vectors have the shared dimension
SharedDimPairs ==
    LET Has(ch) == ch.vec # Undef /\ Len(ch.vec[1]) = locals[1].dim
    IN  { p \in AllPairs : Has(LoopTargetChunks[p[1]]) /\ Has(LoopCandChunks[p[2]]) }

PairSim(p) == cosineSim(LoopTargetChunks[p[1]].vec, LoopCandChunks[p[2]].vec)

\* discovery order: target chunk outer loop, candidate chunk inner loop
Before(p, q) == p[1] < q[1] \/ (p[1] = q[1] /\ p[2] < q[2])

PairOf(m) == <<m.targetChunkIdx + 1, m.candidateChunkIdx + 1>>

\* `list` is the first topk elements of the pairs of P with sim >= min,
\* ordered by sim descending, ties in discovery order
IsTopKOf(list, P) ==
    LET Qual == { p \in P : QLe(req.min, PairSim(p)) }
        Kept == { PairOf(list[k]) : k \in 1..Len(list) }
    IN  /\ Len(list) = Min2(req.topk, Cardinality(Qual))
        /\ \A k \in 1..Len(list) :
              /\ PairOf(list[k]) \in Qual
              /\ list[k].sim = PairSim(PairOf(list[k]))
        /\ \A k, l \in 1..Len(list) :
              k < l => \/ QLt(list[l].sim, list[k].sim)
                       \/ /\ list[l].sim = list[k].sim
                          /\ Before(PairOf(list[k]), PairOf(list[l]))
        /\ \A p \in Qual \ Kept : \A k \in 1..Len(list) :
              \/ QLt(PairSim(p), list[k].sim)
              \/ PairSim(p) = list[k].sim /\ Before(PairOf(list[k]), p)

\* C11 (as stated): the match list returned for a candidate is the first topK
\* elements of all (target chunk, candidate chunk) pairs with similarity >=
\* minSimilarity, by similarity descending, ties in discovery order.
C11_MatchesAreTopKOfAllPairs ==
    (ChunkLevelUsed /\ scored[locals[1].row] # Undef) => IsTopKOf(ReturnedMatches, AllPairs)

\* C11 (amended): the match list kept for a candidate is the first topK
\* elements of the pairs whose two vectors have the shared dimension and
\* whose similarity is >= minSimilarity, by similarity descending, ties in
\* discovery order; the returned list names the same pairs in the same order,
\* each sim rounded to three decimals.
C11_MatchesAreTopKOfSharedDim ==
    ChunkLevelUsed =>
        /\ IsTopKOf(locals[1].matches, SharedDimPairs)
        /\ scored[locals[1].row] # Undef =>
              /\ Len(ReturnedMatches) = Len(locals[1].matches)
              /\ \A k \in 1..Len(ReturnedMatches) :
                    /\ PairOf(ReturnedMatches[k]) = PairOf(locals[1].matches[k])
                    /\ QLe(ReturnedMatches[k].sim,
                           QAdd(locals[1].matches[k].sim, Q(1, 2000)))
                    /\ QLe(locals[1].matches[k].sim,
                           QAdd(ReturnedMatches[k].sim, Q(1, 2000)))
                    /\ 1000 % ReturnedMatches[k].sim[2] = 0

\* C11 witness: four qualifying pairs, three returned, the first two tied
\* and the third below them.
C11_Witness ==
    /\ ChunkLevelUsed
    /\ Cardinality({ p \in SharedDimPairs : QLe(req.min, PairSim(p)) }) = 4
    /\ Len(ReturnedMatches) = 3
    /\ locals[1].matches[1].sim = locals[1].matches[2].sim
    /\ QLt(locals[1].matches[3].sim, locals[1].matches[2].sim)

\* the dimensions of the non-empty chunk vectors of one side
UsableDims(chs) ==
    { Len(chs[i].vec[1]) : i \in { j \in 1..Len(chs) : chs[j].vec # Undef } } \ {0}

\* the candidate's chunk vectors as the callback got them: none when its
\* chunk query failed
LoadedCandChunks ==
    IF candidates[locals[1].row].chunkQueryFails THEN <<>> ELSE LoopCandChunks

\* C12: chunk-level matching is used exactly when some non-empty vector
\* dimension is common to the chunk vectors of both notes; otherwise the
\* note-level cosine is used and the match list is empty.
C12_ChunkLevelIffCommonDimension ==
    (mpc = "map" /\ locals # Undef) =>
        /\ locals[1].chunkLevel <=>
              UsableDims(LoopTargetChunks) \cap UsableDims(LoadedCandChunks) # {}
        /\ ~locals[1].chunkLevel =>
              /\ locals[1].matches = <<>>
              /\ locals[1].cos = NoteLevelCos(target.vec, candidates[locals[1].row])

-----------------------------------------------------------------------------
\* Properties of the entity and tag metrics.

\* the two entity maps of the scored input
EntityMapA == toEntityMap(finput.entitiesA)

EntityMapB == toEntityMap(finput.entitiesB)

\* the accumulated weight of a map
TotalWeight(m) == QSum([i \in 1..Len(m) |-> m[i].v])

\* C13 (as stated): weightedJaccard(A, A) is 1 for every non-empty map A that
\* toEntityMap produces, zero weights included, and 0 for two empty maps.
C13_SelfJaccardIsOne ==
    (FeaturesComputed /\ EntityMapA = EntityMapB) =>
        weightedJaccard(EntityMapA, EntityMapB) = (IF EntityMapA = <<>> THEN Zero ELSE One)

\* C13 (amended): weightedJaccard(A, A) is 1 for every map A that toEntityMap
\* produces with a positive total weight, and 0 when A is empty or all its
\* accumulated weights are 0; computeEntityScore returns the same value.
C13_SelfJaccardIsOneIfWeighted ==
    (FeaturesComputed /\ EntityMapA = EntityMapB) =>
        /\ weightedJaccard(EntityMapA, EntityMapB)
              = (IF QLt(Zero, TotalWeight(EntityMapA)) THEN One ELSE Zero)
        /\ feats.entity_score = weightedJaccard(EntityMapA, EntityMapB)
        /\ \A i \in 1..Len(EntityMapA) : QLe(Zero, EntityMapA[i].v)

\* C13 witness: a map of two keys compared with itself, one of them with
\* accumulated weight 0 after the floor, scoring 1.
C13_Witness ==
    /\ FeaturesComputed
    /\ EntityMapA = EntityMapB
    /\ Len(EntityMapA) = 2
    /\ \E i \in 1..2 : EntityMapA[i].v = Zero
    /\ feats.entity_score = One

-----------------------------------------------------------------------------
\* topIntersect (lib/entities.ts) and buildExplain (lib/linkScoring.ts)

TopIntersectLimit == 5

MaxExplainCosines == 3

\* topIntersect(A, B, limit)
topIntersect(A, B, limit) ==
    LET keys == UnionKeys(A, B)
        all == [i \in 1..Len(keys) |->
                  [k |-> keys[i], s |-> QMin(MapGet(A, keys[i], Zero), MapGet(B, keys[i], Zero))]]
        out == SortDesc(SelectSeq(all, LAMBDA x : QLt(Zero, x.s)), "s")
    IN  [i \in 1..Min2(limit, Len(out)) |-> out[i].k]

\* tagIntersection, as Array.from lists it: the distinct tags of a that b
\* has, in the order of a
tagIntersection(a, b) ==
    LET idx == { i \in 1..Len(a) : /\ \E j \in 1..Len(b) : b[j] = a[i]
                                    /\ \A h \in 1..(i - 1) : a[h] # a[i] }
        Nth(n) == CHOOSE i \in idx : Cardinality({ h \in idx : h < i }) = n - 1
    IN  [n \in 1..Cardinality(idx) |-> a[Nth(n)]]

\* buildExplain
buildExplain(in) ==
    [cosines |-> SubSeq(in.top5_cosines, 1, Min2(MaxExplainCosines, Len(in.top5_cosines))),
     shared_entities |-> topIntersect(toEntityMap(in.entitiesA), toEntityMap(in.entitiesB),
                                      TopIntersectLimit),
     shared_tags |-> tagIntersection(in.tagsA, in.tagsB)]

-----------------------------------------------------------------------------
\* Calls of the functions of the metric library, one call per behaviour.

MaxRawTags == 2

\* raw tags handed to normalizeTags
RawTagInputs ==
    { <<"J", "S">>,
      <<"j", "a", "v", "a", "s", "c", "r", "i", "p", "t">>,
      <<"n", "e", "x", "t", "j", "s">>,
      <<"n", "e", "x", "t", ".", "j", "s">>,
      <<"N", "o", "d", "e", " ", "J", "S">>,
      <<"n", "o", "t", "e">>,
      <<"a", " ", "b", " ", "c", " ", "d">>,
      <<"c", "o", "n", "s", "t", "r", "u", "c", "t", "o", "r">>,
      <<"!">> }

\* raw tags handed to computeTagJaccard
JaccardTagInputs ==
    { <<"J", "S">>,
      <<"j", "a", "v", "a", "s", "c", "r", "i", "p", "t">>,
      <<"n", "o", "t", "e">>,
      <<"a", " ", "b", " ", "c", " ", "d">> }

\* the three cosine implementations: of GET /api/notes/[id]/links, of
\* GET /api/links and of the search route
CosineFunctions == { "cosineSim", "linksCosineSim", "cosineSimilarity" }

\* vectors handed to them: null, empty, of one and two dimensions, of zero
\* norm, and pointing in opposite directions
VectorInputs ==
    { Undef, Some(<<>>), Some(<<1>>), Some(<<1, 0>>), Some(<<-1, 0>>), Some(<<3, 4>>),
      Some(<<-4, 3>>), Some(<<0, 0>>) }

MaxExplainEntities == 2

\* entities handed to buildExplain
ExplainEntityItems ==
    { [entity |-> <<"b">>, weight |-> Undef],
      [entity |-> <<"a">>, weight |-> Undef],
      [entity |-> <<"a">>, weight |-> Some(Q(2, 1))],
      [entity |-> <<"c">>, weight |-> Some(Q(-1, 1))] }

ExplainCalls ==
    { [fn |-> "buildExplain",
       input |-> FeatureInput(<<One>>, Some("mean"), eA, eB, BaseTags, BaseTags, Undef, Undef)] :
         eA \in ListsUpTo(ExplainEntityItems, MaxExplainEntities),
         eB \in ListsUpTo(ExplainEntityItems, MaxExplainEntities) }

TagCalls ==
    { [fn |-> "normalizeTags", tags |-> t] : t \in ListsUpTo(RawTagInputs, MaxRawTags) }
    \cup
    { [fn |-> "computeTagJaccard", a |-> a, b |-> b] :
         a \in ListsUpTo(JaccardTagInputs, MaxRawTags),
         b \in ListsUpTo(JaccardTagInputs, MaxRawTags) }

CosineCalls ==
    { [fn |-> fn, a |-> a, b |-> b] :
         fn \in CosineFunctions, a \in VectorInputs, b \in VectorInputs }

LibInit ==
    /\ ChunkIdle
    /\ ScoreIdle
    /\ MatchIdle
    /\ NoteIdle
    /\ EditorIdle
    /\ \/ call \in TagCalls
       \/ call \in CosineCalls
       \/ call \in ExplainCalls
    /\ ret = Undef
    /\ again = Undef
    /\ upc = "call"

\* normalizeTags(tags)
CallNormalizeTags ==
    /\ upc = "call"
    /\ call.fn = "normalizeTags"
    /\ ret' = normalizeTags(call.tags)
    /\ upc' = "returned"
    /\ UNCHANGED <<call, again>>
    /\ UNCHANGED chunkVars
    /\ UNCHANGED scoreVars
    /\ UNCHANGED matchVars
    /\ UNCHANGED noteVars
    /\ UNCHANGED editorVars

\* normalizeTags applied to the list it returned
CallNormalizeTagsAgain ==
    /\ upc = "returned"
    /\ call.fn = "normalizeTags"
    /\ again' = normalizeTags(ret)
    /\ upc' = "done"
    /\ UNCHANGED <<call, ret>>
    /\ UNCHANGED chunkVars
    /\ UNCHANGED scoreVars
    /\ UNCHANGED matchVars
    /\ UNCHANGED noteVars
    /\ UNCHANGED editorVars

\* computeTagJaccard(a, b)
CallComputeTagJaccard ==
    /\ upc = "call"
    /\ call.fn = "computeTagJaccard"
    /\ ret' = computeTagJaccard(call.a, call.b)
    /\ upc' = "done"
    /\ UNCHANGED <<call, again>>
    /\ UNCHANGED chunkVars
    /\ UNCHANGED scoreVars
    /\ UNCHANGED matchVars
    /\ UNCHANGED noteVars
    /\ UNCHANGED editorVars

\* cosineSim(a, b) of GET /api/notes/[id]/links
CallCosineSim ==
    /\ upc = "call"
    /\ call.fn = "cosineSim"
    /\ ret' = cosineSim(call.a, call.b)
    /\ upc' = "done"
    /\ UNCHANGED <<call, again>>
    /\ UNCHANGED chunkVars
    /\ UNCHANGED scoreVars
    /\ UNCHANGED matchVars
    /\ UNCHANGED noteVars
    /\ UNCHANGED editorVars

\* cosineSim(a, b) of GET /api/links
CallLinksCosineSim ==
    /\ upc = "call"
    /\ call.fn = "linksCosineSim"
    /\ ret' = linksCosineSim(call.a, call.b)
    /\ upc' = "done"
    /\ UNCHANGED <<call, again>>
    /\ UNCHANGED chunkVars
    /\ UNCHANGED scoreVars
    /\ UNCHANGED matchVars
    /\ UNCHANGED noteVars
    /\ UNCHANGED editorVars

\* cosineSimilarity(a, b) of the search route
CallCosineSimilarity ==
    /\ upc = "call"
    /\ call.fn = "cosineSimilarity"
    /\ ret' = cosineSimilarity(call.a, call.b)
    /\ upc' = "done"
    /\ UNCHANGED <<call, again>>
    /\ UNCHANGED chunkVars
    /\ UNCHANGED scoreVars
    /\ UNCHANGED matchVars
    /\ UNCHANGED noteVars
    /\ UNCHANGED editorVars

\* buildExplain(input)
CallBuildExplain ==
    /\ upc = "call"
    /\ call.fn = "buildExplain"
    /\ ret' = buildExplain(call.input)
    /\ upc' = "done"
    /\ UNCHANGED <<call, again>>
    /\ UNCHANGED chunkVars
    /\ UNCHANGED scoreVars
    /\ UNCHANGED matchVars
    /\ UNCHANGED noteVars
    /\ UNCHANGED editorVars

LibNext ==
    \/ CallBuildExplain
    \/ CallNormalizeTags
    \/ CallNormalizeTagsAgain
    \/ CallComputeTagJaccard
    \/ CallCosineSim
    \/ CallLinksCosineSim
    \/ CallCosineSimilarity

SpecLib == LibInit /\ [][LibNext]_vars

\* C14: normalizeTags(normalizeTags(t)) = normalizeTags(t) for every list of
\* raw tags t.
C14_NormalizeTagsIdempotent ==
    (upc = "done" /\ call.fn = "normalizeTags") => again = ret

\* the plain Jaccard index of two sets, 0 when both are empty
PlainJaccard(A, B) ==
    IF A \cup B = {} THEN Zero ELSE Q(Cardinality(A \cap B), Cardinality(A \cup B))

\* C20: computeTagJaccard(a, b) is the plain Jaccard index of the sets of
\* normalizeTags(a) and normalizeTags(b), 0 when both are empty.
C20_TagJaccardOfNormalizedSets ==
    (upc = "done" /\ call.fn = "computeTagJaccard") =>
        ret = PlainJaccard(Range(normalizeTags(call.a)), Range(normalizeTags(call.b)))

\* a cosine call has returned
CosineReturned == upc = "done" /\ call.fn \in CosineFunctions

\* C15: every cosine implementation returns a value in [0,1] for every pair
\* of numeric vectors; a negative dot product yields 0.
C15_CosineInUnitInterval ==
    (CosineReturned /\ call.a # Undef /\ call.b # Undef) =>
        /\ InUnit(ret)
        /\ (Len(call.a[1]) = Len(call.b[1]) /\ DotProduct(call.a[1], call.b[1]) < 0)
              => ret = Zero

\* a vector that is null, empty or of zero norm
Degenerate(v) == v = Undef \/ v[1] = <<>> \/ DotProduct(v[1], v[1]) = 0

\* C16: a cosine implementation returns 0 whenever either vector is null,
\* empty or of zero norm, or the two lengths differ.
C16_DegenerateCosineIsZero ==
    CosineReturned =>
        /\ (Degenerate(call.a) \/ Degenerate(call.b)) => ret = Zero
        /\ (call.a # Undef /\ call.b # Undef /\ Len(call.a[1]) # Len(call.b[1]))
              => ret = Zero

\* C16 witness: the search route's cosineSimilarity called with a vector of
\* zero norm and one of norm 5, returning 0.
C16_Witness ==
    /\ CosineReturned
    /\ call.fn = "cosineSimilarity"
    /\ call.a = Some(<<0, 0>>)
    /\ call.b = Some(<<3, 4>>)
    /\ ret = Zero

-----------------------------------------------------------------------------
\* Properties of the batch of GET /api/notes/[id]/links.

\* cos and matches of candidate i, computed for it alone
AloneMatch(i) ==
    MatchCandidate(ChunkVecs(target.chunks), target.vec, candidates[i], req.min, req.topk)

\* the suggestions of the response that name candidate i
SuggestionsOf(i) == SelectSeq(suggestions, LAMBDA r : r.id = i)

\* candidate i has no chunk vector the matcher can read
NoChunkVectors(i) ==
    \/ candidates[i].chunkQueryFails
    \/ \A j \in 1..Len(candidates[i].chunks) :
          parseEmbedding(candidates[i].chunks[j].embedding) = Undef

\* C17: a candidate with a missing or malformed embedding, tags, entities or
\* chunk embedding, or with a failing chunk query, does not abort the batch:
\* the response has exactly one suggestion for every candidate whose cos is
\* not 0, whatever the other candidates are, and the bad candidate is skipped
\* (no readable embedding at all) or scored with the missing signal as 0.
C17_BadCandidateNeverAborts ==
    mpc = "done" =>
        \A i \in 1..Len(candidates) :
            LET row == candidates[i]
                sug == SuggestionsOf(i)
            IN  /\ Len(sug) = (IF AloneMatch(i).cos = Zero THEN 0 ELSE 1)
                /\ NoChunkVectors(i) =>
                      Len(sug) = (IF NoteLevelCos(target.vec, row) = Zero THEN 0 ELSE 1)
                /\ (NoChunkVectors(i) /\ parseEmbedding(row.embedding) = Undef)
                      => Len(sug) = 0
                /\ Len(sug) = 1 =>
                      /\ sug[1].features.semantic = AloneMatch(i).cos
                      /\ row.tags.json # "array" => sug[1].features.tag_score = Zero
                      /\ row.entities.json # "array" => sug[1].features.entity_score = Zero
                      /\ NoChunkVectors(i) =>
                            /\ sug[1].matches = <<>>
                            /\ sug[1].features.semantic = NoteLevelCos(target.vec, row)

\* C17 witness: the first candidate's chunk query fails and the second one's
\* tags are malformed JSON; both are in the response, the first scored by
\* its note-level cosine 0.6 and the second with tag_score 0.
C17_Witness ==
    /\ mpc = "done"
    /\ Len(candidates) = 2
    /\ candidates[1].chunkQueryFails
    /\ candidates[2].tags = MalformedBlob
    /\ Len(suggestions) = 2
    /\ \E k \in 1..2 : suggestions[k].id = 1 /\ suggestions[k].features.semantic = Q(3, 5)
    /\ \E k \in 1..2 : suggestions[k].id = 2 /\ suggestions[k].features.tag_score = Zero

\* C18: the suggestions are in non-increasing order of score, they are
\* produced only once every candidate has been through the callback, and
\* each decision is classifyLink of the score.
C18_SuggestionsSortedAfterScoring ==
    /\ mpc # "done" => suggestions = <<>>
    /\ mpc = "done" =>
          /\ nextRow = Len(candidates) + 1
          /\ Len(suggestions)
                = Cardinality({ i \in 1..Len(candidates) : AloneMatch(i).cos # Zero })
          /\ \A k, l \in 1..Len(suggestions) :
                k < l => QLe(suggestions[l].score, suggestions[k].score)
          /\ \A k \in 1..Len(suggestions) :
                suggestions[k].decision = classifyLink(suggestions[k].score)

\* C18 witness: two suggestions, the second candidate ranked first with a
\* strictly higher score.
C18_Witness ==
    /\ mpc = "done"
    /\ Len(suggestions) = 2
    /\ suggestions[1].id = 2
    /\ suggestions[2].id = 1
    /\ QLt(suggestions[2].score, suggestions[1].score)

\* the code-unit order of the characters of an entity key
KeyChars ==
    <<"-", "0", "1", "2", "3", "4", "5", "6", "7", "8", "9",
      "a", "b", "c", "d", "e", "f", "g", "h", "i", "j", "k", "l", "m",
      "n", "o", "p", "q", "r", "s", "t", "u", "v", "w", "x", "y", "z">>

CharRank(c) == CHOOSE i \in 1..Len(KeyChars) : KeyChars[i] = c

\* k1 < k2 as strings
RECURSIVE KeyLess(_, _)
KeyLess(k1, k2) ==
    IF k2 = <<>> THEN FALSE
    ELSE IF k1 = <<>> THEN TRUE
    ELSE IF Head(k1) # Head(k2) THEN CharRank(Head(k1)) < CharRank(Head(k2))
    ELSE KeyLess(Tail(k1), Tail(k2))

\* the maps buildExplain was called on
ExplainMapA == toEntityMap(call.input.entitiesA)

ExplainMapB == toEntityMap(call.input.entitiesB)

SharedWeight(k) == QMin(MapGet(ExplainMapA, k, Zero), MapGet(ExplainMapB, k, Zero))

\* the keys present with positive weight in both maps
SharedKeys == { k \in Range(MapKeys(ExplainMapA)) : QLt(Zero, SharedWeight(k)) }

\* C19: shared_entities lists at most 5 of the keys with positive weight in
\* both maps, by min(weightA, weightB) descending and, among equal minima, by
\* key ascending.
C19_SharedEntitiesOrder ==
    (upc = "done" /\ call.fn = "buildExplain") =>
        LET list == ret.shared_entities
            Ahead(k1, k2) == \/ QLt(SharedWeight(k2), SharedWeight(k1))
                             \/ SharedWeight(k1) = SharedWeight(k2) /\ KeyLess(k1, k2)
        IN  /\ Len(list) = Min2(5, Cardinality(SharedKeys))
            /\ \A i \in 1..Len(list) : list[i] \in SharedKeys
            /\ \A i, j \in 1..Len(list) : i < j => Ahead(list[i], list[j])
            /\ \A k \in SharedKeys \ Range(list) : \A i \in 1..Len(list) : Ahead(list[i], k)


(***************************************************************************)
(* Further claims about GET /api/notes/[id]/links (checked under           *)
(* SpecMatch).                                                             *)
(***************************************************************************)
\* The callback's last run returned null at line 185 (cos === 0).
RowSkipped ==
    /\ mpc = "map"
    /\ locals # Undef
    /\ locals[1].cos = Zero
    /\ scored[locals[1].row] = Undef

\* The features lines 191-200 would have computed for the skipped row.
SkippedFeatures ==
    computeFeatureScores(RowFeatureInput(target, candidates[locals[1].row], locals[1].cos))

\* FeatureScores with semantic 0, the structural signals 0 as both routes
\* pass them, and the given entity and tag scores.
ZeroCosineFeatures(e, t) ==
    [semantic |-> Zero, entity_score |-> e, tag_score |-> t,
     reference_score |-> Zero, temporal_score |-> Zero, session_score |-> Zero]

\* C29: a candidate that is skipped because its best cosine is exactly 0
\* would have been classified 'none' had it been scored (structural signals
\* being 0), whatever its tag and entity overlap: its own features give
\* 'none', and so does every entity_score and tag_score of [0,1] next to a
\* semantic of 0.
C29_SkippedRowWouldBeNone ==
    RowSkipped =>
       /\ SkippedFeatures.semantic = Zero
       /\ classifyLink(finalLinkScore(SkippedFeatures)) = "none"
       /\ \A e \in UnitGrid \cup { Q(19, 100), Q(20, 100) } :
          \A t \in UnitGrid :
             /\ classifyLink(finalLinkScore(ZeroCosineFeatures(e, t))) = "none"
             /\ QLe(finalLinkScore(ZeroCosineFeatures(e, t)), Q(35, 100))

\* C29 witness: a skipped candidate whose entities are those of the target
\* (entity_score 1) and whose tags overlap the target's.
C29_Witness ==
    /\ RowSkipped
    /\ SkippedFeatures.entity_score = One
    /\ QLt(Zero, SkippedFeatures.tag_score)

(***************************************************************************)
(* Further claims about the scoring library (checked under SpecScore).     *)
(***************************************************************************)
\* The aggregate of the finite values of `top`, each clamped to [0,1] first.
AggregateOfClamped(top, method) ==
    LET vals    == SelectSeq(top, IsFinite)
        clamped == [i \in 1..Len(vals) |-> clamp01(vals[i])]
    IN  IF Len(vals) = 0 THEN Zero
        ELSE IF method = "max" THEN QMaxOf(clamped)
        ELSE QDiv(QSum(clamped), Q(Len(clamped), 1))

\* C21 (as claimed): aggregateSemantic returns the mean (default) or the max
\* of the supplied cosine values after each value has individually been
\* clamped to [0,1], and returns 0 for an empty list.
C21_SemanticIsAggregateOfClamped ==
    FeaturesComputed =>
        feats.semantic = AggregateOfClamped(finput.top5_cosines,
                                            OrDefault(finput.aggregate, "mean"))


\* The FeatureInputs with the A and B sides exchanged.
SwapSides(in) ==
    [in EXCEPT !.entitiesA = in.entitiesB, !.entitiesB = in.entitiesA,
               !.tagsA = in.tagsB, !.tagsB = in.tagsA]

SwappedFeatures == computeFeatureScores(SwapSides(finput))

TagSetsBalanced(in) ==
    \/ Cardinality(KebabSet(in.tagsA)) = Cardinality(KebabSet(in.tagsB))
    \/ KebabSet(in.tagsA) \cap KebabSet(in.tagsB) = {}

MatchesIn(t, pat, s, targetChars) ==
    { i \in s..Min2(s + targetChars, Len(t) - Len(pat)) :
         \A k \in 1..Len(pat) : t[i + k] = pat[k] }

\* A position is at or after start + 0.6*targetChars.
AtOrAfterFloor(i, s, targetChars) == 10 * (i - s) >= 6 * targetChars

\* The end the boundary policy of C22 gives the chunk that begins at s.
PolicyEnd(t, s, targetChars) ==
    LET periods == MatchesIn(t, <<".", " ">>, s, targetChars)
        spaces  == { i \in MatchesIn(t, <<" ">>, s, targetChars) :
                        AtOrAfterFloor(i, s, targetChars) }
    IN  IF periods # {} /\ AtOrAfterFloor(SetMax(periods), s, targetChars)
        THEN SetMax(periods) + 1
        ELSE IF spaces # {} THEN SetMax(spaces)
        ELSE s + targetChars

\* C22 (as claimed): a chunk that does not reach the end of the text ends at
\* the last sentence terminal (". ") found in [start, start+targetChars]
\* whenever that boundary is at or after start + 0.6*targetChars (the position
\* exactly equal to the floor counts); otherwise at the last space at or after
\* the same floor; otherwise at the raw cut start+targetChars.
C22_EndFollowsBoundaryPolicy ==
    \A i \in 1..Len(chunks) :
       chunks[i].endIndex < Len(text) =>
          chunks[i].endIndex = PolicyEnd(text, chunks[i].startIndex, TargetChars(opts))

\* C27 (as claimed): every chunk emitted by chunkText spans at most
\* targetChars = min(targetTokens*4, maxCharsPerChunk) characters, so no chunk
\* exceeds the maxCharsPerChunk hard guard.
C27_ChunkSpanAtMostTargetChars ==
    \A i \in 1..Len(chunks) :
       /\ chunks[i].endIndex - chunks[i].startIndex <= TargetChars(opts)
       /\ Len(chunks[i].text) <= MaxCharsPerChunk(opts)


\* The least advance of the cursor under the application's options: a chunk
\* that does not reach the end of the text ends after start + 840 and the
\* overlap takes 320 characters back.
AppMinAdvance == FloorTimes06(TargetChars(AppOptions)) + 1 - OverlapChars(AppOptions)

\* C26: with the options the application uses (targetTokens 350,
\* overlapTokens 80, default maxCharsPerChunk 4000) each loop iteration's
\* start is strictly greater than the previous one's (by at least 521
\* characters), so chunkText terminates on every text: the cursor stays
\* below the text length and the loop runs at most once per 521 characters
\* of text, plus once.
C26_AppOptionsMakeProgress ==
    opts = AppOptions =>
       /\ AppMinAdvance > 0
       /\ \A i \in 1..(Len(trail) - 1) : trail[i] + AppMinAdvance <= trail[i + 1]
       /\ cpc = "loop" /\ trail # <<>> =>
             /\ trail[Len(trail)] + AppMinAdvance <= start
             /\ start < Len(text)
       /\ cpc # "entry" => Len(trail) * AppMinAdvance <= Len(text) + AppMinAdvance
       /\ cpc = "loop" => Len(trail) < MaxIterations

\* C26 witness: the application's options have chunked a text into three or
\* more chunks, one of them ended at a sentence boundary, and returned.
C26_Witness ==
    /\ opts = AppOptions
    /\ cpc = "done"
    /\ Len(trail) >= 3
    /\ \E i \in 1..Len(chunks) :
          /\ chunks[i].endIndex < Len(text)
          /\ chunks[i].endIndex < chunks[i].startIndex + TargetChars(opts)


(***************************************************************************)
(* PUT /api/notes/[id] and processNoteHeavyWork (the notes route).         *)
(*                                                                         *)
(* A content is [ver, n]: `ver` tells the contents apart and n is the      *)
(* number of chunks chunkText makes of its body text (0: no body text).    *)
(* Handlers and background runs interleave at their awaits only: each      *)
(* action is the synchronous code from one await to the next.              *)
(***************************************************************************)
\* The two requests P1 and P2, received in this order.
PutIds == {1, 2}

MaxBodyChunks == 2

Content(ver, n) == [ver |-> ver, n |-> n]

\* lines 121-133: the title is '' for an empty plain text and otherwise the
\* generated title or, when generation fails or is empty, the first line.
TitleOf(content) == IF content.n = 0 THEN "" ELSE "T"

\* buildNoteTextForEmbedding(title, content) is non-empty
HasText(title, content) == title # "" \/ content.n > 0

\* ch.ord of the chunks of chunkText(plainBody, ...)
ChunkOrds(content) == 0..(content.n - 1)

NewJob ==
    [pc |-> "scheduled", content |-> Undef, k |-> 0, inserted |-> 0, embedFails |-> 0,
     noteEmbedded |-> FALSE, failed |-> {}]

\* lines 197-216: where the for loop goes after chunk k of n
LoopNext(k, n) == IF k + 1 < n THEN "embedChunk" ELSE "finish"

\* generateEntitiesFromText throwing out of the loop body, to the catch of
\* line 233
OnEntitiesThrowToOuterCatch(k, n) == "abort"

\* lines 205-211: a throw of generateEntitiesFromText is caught inside the
\* loop body, which goes on with the next chunk
OnEntitiesThrow(k, n) == LoopNext(k, n)

\* The note was saved and processed before: one chunk, embedded.
NoteInit ==
    /\ ChunkIdle
    /\ ScoreIdle
    /\ MatchIdle
    /\ LibIdle
    /\ EditorIdle
    /\ note = Some([contentJson |-> Content(0, 1), title |-> "T", embedding |-> Some(0),
                    tags |-> Some(0), entities |-> Some(0)])
    /\ noteChunks = { [ord |-> 0, ver |-> 0, job |-> 0] }
    /\ puts \in [PutIds -> { [pc |-> "unsent", content |-> Undef] }]
    /\ jobs = <<>>
    /\ lastDelete = 0

\* lines 140-148: db.update(notes).set(updates), setImmediate(...)
Commit(p, content) ==
    /\ note' = Some([note[1] EXCEPT !.contentJson = content, !.title = TitleOf(content)])
    /\ jobs' = Append(jobs, NewJob)
    /\ puts' = [puts EXCEPT ![p] = [pc |-> "done", content |-> Some(content)]]

\* lines 87-126: the handler up to the await of generateTitleFromText; with
\* an empty plain text there is no await and the handler runs to its end.
PutReceive(p) ==
    /\ note # Undef
    /\ puts[p].pc = "unsent"
    /\ \A q \in PutIds : q < p => puts[q].pc # "unsent"
    /\ \E n \in 0..MaxBodyChunks :
          IF n = 0
          THEN Commit(p, Content(p, n))
          ELSE /\ puts' = [puts EXCEPT ![p] = [pc |-> "title", content |-> Some(Content(p, n))]]
               /\ UNCHANGED <<note, jobs>>
    /\ UNCHANGED <<noteChunks, lastDelete>>
    /\ UNCHANGED chunkVars
    /\ UNCHANGED scoreVars
    /\ UNCHANGED matchVars
    /\ UNCHANGED libVars
    /\ UNCHANGED editorVars

\* lines 126-151: generateTitleFromText settles (either way a title is set),
\* the row is updated and the background run is scheduled.
PutTitleSettles(p) ==
    /\ puts[p].pc = "title"
    /\ Commit(p, puts[p].content[1])
    /\ UNCHANGED <<noteChunks, lastDelete>>
    /\ UNCHANGED chunkVars
    /\ UNCHANGED scoreVars
    /\ UNCHANGED matchVars
    /\ UNCHANGED libVars
    /\ UNCHANGED editorVars

\* lines 157-173: the run reads the row and calls embedTextWithOllama(text),
\* or does nothing when the text is empty.
JobStart(j) ==
    /\ jobs[j].pc = "scheduled"
    /\ jobs' = [jobs EXCEPT ![j].content = Some(note[1].contentJson),
                            ![j].pc = IF HasText(note[1].title, note[1].contentJson)
                                      THEN "embedNote" ELSE "done"]
    /\ UNCHANGED <<note, noteChunks, puts, lastDelete>>
    /\ UNCHANGED chunkVars
    /\ UNCHANGED scoreVars
    /\ UNCHANGED matchVars
    /\ UNCHANGED libVars
    /\ UNCHANGED editorVars

\* lines 173-177: the note embedding is stored and generateTagsFromText is
\* called; a failed embedding goes to the catch of line 236.
JobNoteEmbedSettles(j) ==
    /\ jobs[j].pc = "embedNote"
    /\ \E ok \in BOOLEAN :
          IF ok
          THEN /\ note' = Some([note[1] EXCEPT !.embedding = Some(jobs[j].content[1].ver)])
               /\ jobs' = [jobs EXCEPT ![j].pc = "tags", ![j].noteEmbedded = TRUE]
          ELSE /\ note' = note
               /\ jobs' = [jobs EXCEPT ![j].pc = "done", ![j].failed = @ \cup {"embedding"}]
    /\ UNCHANGED <<noteChunks, puts, lastDelete>>
    /\ UNCHANGED chunkVars
    /\ UNCHANGED scoreVars
    /\ UNCHANGED matchVars
    /\ UNCHANGED libVars
    /\ UNCHANGED editorVars

\* lines 177-199 and 227-231: the tags are stored (or their failure is
\* caught), the existing chunks are deleted and the embedding of the first
\* chunk is called; without body text the entities are cleared.
JobTagsSettle(j) ==
    /\ jobs[j].pc = "tags"
    /\ LET content == jobs[j].content[1]
       IN  \E ok \in BOOLEAN :
              /\ noteChunks' = {}
              /\ lastDelete' = j
              /\ note' = Some([note[1] EXCEPT
                                 !.tags = IF ok THEN Some(content.ver) ELSE @,
                                 !.entities = IF content.n = 0 THEN Some(content.ver) ELSE @])
              /\ jobs' = [jobs EXCEPT
                            ![j].failed = IF ok THEN @ ELSE @ \cup {"tags"},
                            ![j].k = 0,
                            ![j].pc = IF content.n = 0 THEN "done" ELSE "embedChunk"]
    /\ UNCHANGED puts
    /\ UNCHANGED chunkVars
    /\ UNCHANGED scoreVars
    /\ UNCHANGED matchVars
    /\ UNCHANGED libVars
    /\ UNCHANGED editorVars

\* The row of the note after chunk k of run j: lines 218-226 store the
\* entities once the loop is over; a throw to line 233 stores nothing.
NoteAfterChunk(j, step) ==
    IF step = "finish"
    THEN Some([note[1] EXCEPT !.entities = Some(jobs[j].content[1].ver)])
    ELSE note

\* lines 199-208 and 213-215: the chunk's embedding row is inserted and
\* generateEntitiesFromText is called; a failed embedding skips the chunk.
JobChunkEmbedSettles(j) ==
    /\ jobs[j].pc = "embedChunk"
    /\ LET content == jobs[j].content[1]
           step    == LoopNext(jobs[j].k, content.n)
       IN  \E ok \in BOOLEAN :
              IF ok
              THEN /\ noteChunks' = noteChunks \cup
                                      { [ord |-> jobs[j].k, ver |-> content.ver, job |-> j] }
                   /\ jobs' = [jobs EXCEPT ![j].pc = "entities", ![j].inserted = @ + 1]
                   /\ note' = note
              ELSE /\ noteChunks' = noteChunks
                   /\ jobs' = [jobs EXCEPT
                                 ![j].pc = IF step = "embedChunk" THEN "embedChunk" ELSE "done",
                                 ![j].k = IF step = "embedChunk" THEN @ + 1 ELSE @,
                                 ![j].embedFails = @ + 1]
                   /\ note' = NoteAfterChunk(j, step)
    /\ UNCHANGED <<puts, lastDelete>>
    /\ UNCHANGED chunkVars
    /\ UNCHANGED scoreVars
    /\ UNCHANGED matchVars
    /\ UNCHANGED libVars
    /\ UNCHANGED editorVars

\* lines 208-226: generateEntitiesFromText settles; the loop goes on with
\* the next chunk and, after the last one, the entities are stored.
JobEntitiesSettle(j) ==
    /\ jobs[j].pc = "entities"
    /\ \E ok \in BOOLEAN :
          \E step \in { IF ok THEN LoopNext(jobs[j].k, jobs[j].content[1].n)
                        ELSE OnEntitiesThrow(jobs[j].k, jobs[j].content[1].n) } :
             /\ jobs' = [jobs EXCEPT
                           ![j].pc = IF step = "embedChunk" THEN "embedChunk" ELSE "done",
                           ![j].k = IF step = "embedChunk" THEN @ + 1 ELSE @,
                           ![j].failed = IF ok THEN @ ELSE @ \cup {"entities"}]
             /\ note' = NoteAfterChunk(j, step)
    /\ UNCHANGED <<noteChunks, puts, lastDelete>>
    /\ UNCHANGED chunkVars
    /\ UNCHANGED scoreVars
    /\ UNCHANGED matchVars
    /\ UNCHANGED libVars
    /\ UNCHANGED editorVars

NoteNext ==
    \/ \E p \in PutIds : PutReceive(p)
    \/ \E p \in PutIds : PutTitleSettles(p)
    \/ \E j \in 1..Len(jobs) : JobStart(j)
    \/ \E j \in 1..Len(jobs) : JobNoteEmbedSettles(j)
    \/ \E j \in 1..Len(jobs) : JobTagsSettle(j)
    \/ \E j \in 1..Len(jobs) : JobChunkEmbedSettles(j)
    \/ \E j \in 1..Len(jobs) : JobEntitiesSettle(j)

SpecNote == NoteInit /\ [][NoteNext]_vars

(***************************************************************************)
(* Claims about the notes route (checked under SpecNote).                  *)
(***************************************************************************)
AllPutsDone == \A p \in PutIds : puts[p].pc = "done"

AllJobsDone == \A j \in 1..Len(jobs) : jobs[j].pc = "done"

\* C25 (as claimed): if two PUT requests for the same note are received in
\* the order P1 then P2, then after both handlers have completed the stored
\* contentJson is the one sent by P2, whatever the durations of the awaited
\* title generation in each handler.
C25_LastPutWins ==
    note # Undef /\ AllPutsDone => note[1].contentJson = puts[2].content[1]

\* C24 (as claimed): after any interleaving of background runs for the same
\* note has completed with all embedding calls succeeding, the note_chunks
\* rows are exactly the chunks of the latest saved content: one row per ord,
\* none left over from an earlier run.
C24_ChunksAreThoseOfLatestContent ==
    ( /\ note # Undef
      /\ AllPutsDone
      /\ AllJobsDone
      /\ \A j \in 1..Len(jobs) : jobs[j].embedFails = 0 /\ "embedding" \notin jobs[j].failed )
    => /\ \A r \in noteChunks : r.ver = note[1].contentJson.ver
       /\ \A o \in ChunkOrds(note[1].contentJson) :
             Cardinality({ r \in noteChunks : r.ord = o }) = 1
       /\ \A r \in noteChunks : r.ord \in ChunkOrds(note[1].contentJson)

RowsOf(j) == { r \in noteChunks : r.job = j }

\* The chunks of run j whose embedding call has settled.
ChunksSettled(j) ==
    IF jobs[j].pc = "embedChunk" THEN jobs[j].k
    ELSE IF jobs[j].pc = "entities" THEN jobs[j].k + 1
    ELSE IF jobs[j].pc = "done" /\ jobs[j].noteEmbedded THEN jobs[j].content[1].n
    ELSE 0

\* C23: a failure of entity extraction for a chunk, or of tag generation for
\* the note, never removes or prevents persistence of an embedding that was
\* computed successfully: whatever has failed, the note embedding of a run
\* that computed it is stored, every chunk whose embedding succeeded has had
\* its row inserted (the loop goes on to the last chunk), and the rows of the
\* run that last replaced the chunks are all still stored.
C23_EnrichmentFailureKeepsEmbeddings ==
    \A j \in 1..Len(jobs) :
       /\ jobs[j].noteEmbedded => note[1].embedding # Undef
       /\ jobs[j].inserted + jobs[j].embedFails
             = ChunksSettled(j)
       /\ lastDelete = j =>
             /\ Cardinality(RowsOf(j)) = jobs[j].inserted
             /\ \A r \in RowsOf(j) : r.ver = jobs[j].content[1].ver

\* C23 witness: a run whose tag generation and entity extraction both failed
\* has embedded and stored both chunks of its content, and its rows and the
\* note embedding are stored.
C23_Witness ==
    \E j \in 1..Len(jobs) :
       /\ jobs[j].pc = "done"
       /\ jobs[j].failed = {"tags", "entities"}
       /\ jobs[j].embedFails = 0
       /\ jobs[j].content[1].n = MaxBodyChunks
       /\ jobs[j].inserted = MaxBodyChunks
       /\ lastDelete = j
       /\ Cardinality(RowsOf(j)) = MaxBodyChunks
       /\ note[1].embedding = Some(jobs[j].content[1].ver)


(***************************************************************************)
(* The autosave of components/BlockNoteEditor.tsx, for an editor with a    *)
(* noteId.  Timers and fetches complete in any order.                      *)
(***************************************************************************)
MaxEdits == 4

\* The component is mounted and the note's blocks have just been put into
\* the editor (lines 60-68).
EditorInit ==
    /\ ChunkIdle
    /\ ScoreIdle
    /\ MatchIdle
    /\ LibIdle
    /\ NoteIdle
    /\ saveState = "idle"
    /\ debounceRef = FALSE
    /\ initializingRef = TRUE
    /\ putsInFlight = 0
    /\ idleTimers = 0
    /\ edits = 0

\* line 67: setTimeout(() => { initializingRef.current = false; }, 0)
InitializingEnds ==
    /\ initializingRef
    /\ initializingRef' = FALSE
    /\ UNCHANGED <<saveState, debounceRef, putsInFlight, idleTimers, edits>>
    /\ UNCHANGED chunkVars
    /\ UNCHANGED scoreVars
    /\ UNCHANGED matchVars
    /\ UNCHANGED libVars
    /\ UNCHANGED noteVars

\* lines 26-31: handleChange
HandleChange ==
    /\ edits < MaxEdits
    /\ edits' = edits + 1
    /\ IF initializingRef
       THEN UNCHANGED <<saveState, debounceRef>>
       ELSE /\ saveState' = "saving"
            /\ debounceRef' = TRUE
    /\ UNCHANGED <<initializingRef, putsInFlight, idleTimers>>
    /\ UNCHANGED chunkVars
    /\ UNCHANGED scoreVars
    /\ UNCHANGED matchVars
    /\ UNCHANGED libVars
    /\ UNCHANGED noteVars

\* line 30 and lines 98-107: the debounce timer fires and saveNow runs up to
\* the await of its fetch
DebounceFires ==
    /\ debounceRef
    /\ debounceRef' = FALSE
    /\ saveState' = "saving"
    /\ putsInFlight' = putsInFlight + 1
    /\ UNCHANGED <<initializingRef, idleTimers, edits>>
    /\ UNCHANGED chunkVars
    /\ UNCHANGED scoreVars
    /\ UNCHANGED matchVars
    /\ UNCHANGED libVars
    /\ UNCHANGED noteVars

\* lines 108-113: the PUT succeeded
PutSucceeds ==
    /\ putsInFlight > 0
    /\ putsInFlight' = putsInFlight - 1
    /\ saveState' = "saved"
    /\ idleTimers' = idleTimers + 1
    /\ UNCHANGED <<debounceRef, initializingRef, edits>>
    /\ UNCHANGED chunkVars
    /\ UNCHANGED scoreVars
    /\ UNCHANGED matchVars
    /\ UNCHANGED libVars
    /\ UNCHANGED noteVars

\* lines 108 and 114-117: the fetch failed or the response was not ok
PutFails ==
    /\ putsInFlight > 0
    /\ putsInFlight' = putsInFlight - 1
    /\ saveState' = "error"
    /\ UNCHANGED <<debounceRef, initializingRef, idleTimers, edits>>
    /\ UNCHANGED chunkVars
    /\ UNCHANGED scoreVars
    /\ UNCHANGED matchVars
    /\ UNCHANGED libVars
    /\ UNCHANGED noteVars

\* line 113: setTimeout(() => setSaveState("idle"), 800)
IdleTimerFires ==
    /\ idleTimers > 0
    /\ idleTimers' = idleTimers - 1
    /\ saveState' = "idle"
    /\ UNCHANGED <<debounceRef, initializingRef, putsInFlight, edits>>
    /\ UNCHANGED chunkVars
    /\ UNCHANGED scoreVars
    /\ UNCHANGED matchVars
    /\ UNCHANGED libVars
    /\ UNCHANGED noteVars

EditorNext ==
    \/ InitializingEnds
    \/ HandleChange
    \/ DebounceFires
    \/ PutSucceeds
    \/ PutFails
    \/ IdleTimerFires

SpecEditor == EditorInit /\ [][EditorNext]_vars

(***************************************************************************)
(* Claims about the editor's autosave (checked under SpecEditor).          *)
(***************************************************************************)
\* An edit is still unsaved: the debounce timer is armed or a PUT is in
\* flight.
ChangePending == debounceRef \/ putsInFlight > 0

\* C30 (as claimed): whenever an edit is still unsaved (the 800 ms debounce
\* timer is armed or a PUT is in flight), saveState is 'saving': the badge
\* never shows 'idle' or 'saved' while a change is pending, under any
\* interleaving of edits, debounce firings, PUT completions and the delayed
\* reset-to-idle timer.
C30_PendingChangeShowsSaving == ChangePending => saveState = "saving"

=============================================================================
